---- MODULE Spec2Model ----
(***************************************************************************)
(* NOVA: the browser-side chat components and their requests.              *)
(*                                                                         *)
(* Each component (AgentChatSection, ChatSection, MultipleSourcesChat,     *)
(* PdfUploader, Sidebar) is a state machine over its React state.  An      *)
(* asynchronous handler is cut at its awaits: one action runs the handler  *)
(* up to the await, another runs the continuation once the awaited         *)
(* request has an outcome.  Server answers are inputs, drawn with \E.      *)
(***************************************************************************)
EXTENDS Integers, Sequences, FiniteSets, TLC

\* ----------------------------------------------------------------- state
\* AgentChatSection
VARIABLES
  ag_variant,        \* which version of the component is mounted
  ag_sessionId,      \* prop sessionId: 0 when absent
  ag_user,           \* user?.id is available
  ag_messages,       \* state messages
  ag_inputValue,     \* state inputValue
  ag_isLoading,      \* state isLoading
  ag_currentSession, \* state currentSession?.id: 0 when null
  ag_abortRef,       \* abortControllerRef.current is set
  ag_pc,             \* where sendMessage stands: idle, creating, fetching, streaming
  ag_wire,           \* bytes of the reply not yet read
  ag_acc,            \* local accumulatedContent / fullContent
  ag_aiId,           \* aiMessage.id of the running send
  ag_loadPending,    \* a loadSession request is in flight
  ag_chatReqs,       \* session_id of every POST /api/agents/chat, in order
  ag_createReqs,     \* number of POST /api/agents/create-agent-session
  ag_created,        \* ids the server returned for created sessions, in order
  ag_toasts,         \* toasts shown since the running send was accepted
  ag_sends,          \* number of accepted sends
  ag_stopClicked,    \* stopGeneration was invoked during the running send
  ag_sawError,       \* the line loop parsed a data event with an error field
  ag_outcome         \* how the last send ended: none, finished, failed, stopped

agVars ==
  <<ag_variant, ag_sessionId, ag_user, ag_messages, ag_inputValue, ag_isLoading,
    ag_currentSession, ag_abortRef, ag_pc, ag_wire, ag_acc, ag_aiId,
    ag_loadPending, ag_chatReqs, ag_createReqs, ag_created, ag_toasts, ag_sends,
    ag_stopClicked, ag_sawError, ag_outcome>>

\* ChatSection
VARIABLES
  cs_sessionId,          \* prop sessionId: 0 when empty
  cs_user,               \* user?.id is available
  cs_messages,           \* state messages
  cs_inputMessage,       \* state inputMessage
  cs_isTyping,           \* state isTyping
  cs_isLoading,          \* state isLoading
  cs_streamingMessageId, \* state streamingMessageId: 0 when null
  cs_loads,              \* sessions whose history request is in flight
  cs_pc,                 \* where handleSendMessage stands: idle, fetching, streaming
  cs_wire,               \* bytes of the reply not yet read
  cs_acc,                \* local assistantResponse
  cs_asstId,             \* local assistantMessageId
  cs_sends,              \* number of accepted sends
  cs_sent,               \* the content the server sent in the running reply
  cs_outcome,            \* how the last send ended: none, finished, failed
  cs_toasts,             \* toasts shown since the running send was accepted
  cs_before              \* the message list as it was when the running send began

csVars ==
  <<cs_sessionId, cs_user, cs_messages, cs_inputMessage, cs_isTyping,
    cs_isLoading, cs_streamingMessageId, cs_loads, cs_pc, cs_wire, cs_acc,
    cs_asstId, cs_sends, cs_sent, cs_outcome, cs_toasts, cs_before>>

\* MultipleSourcesChat
VARIABLES
  ms_phase,               \* constructed (first render) or mounted (effects ran)
  ms_urlSid,              \* ?sessionId= of the page URL: 0 when absent
  ms_user,                \* user?.id is available
  ms_sessionIdFromParams, \* state sessionIdFromParams: 0 when null
  ms_messages,            \* state messages
  ms_input,               \* state input
  ms_isLoading,           \* state isLoading
  ms_isLoadingHistory,    \* state isLoadingHistory
  ms_pc,                  \* where handleSendMessage stands: idle, creating, sending
  ms_userMsgId,           \* local userMessage.id of the running send
  ms_mountCreate,         \* createNewSessionAndUpdateURL awaits its request
  ms_historyPending,      \* loadChatHistory awaits its request
  ms_urlParam,            \* the id replaceState last wrote into the URL: 0 when none
  ms_sendReqs,            \* session_id of every POST /api/multi/send-message
  ms_createReqs,          \* number of POST /api/multi/sessions
  ms_created,             \* ids the server returned for created sessions
  ms_toasts,              \* toasts shown since the running send was accepted
  ms_sends,               \* number of accepted sends
  ms_outcome              \* how the last send ended: none, finished, failed

msVars ==
  <<ms_phase, ms_urlSid, ms_user, ms_sessionIdFromParams, ms_messages, ms_input,
    ms_isLoading, ms_isLoadingHistory, ms_pc, ms_userMsgId, ms_mountCreate,
    ms_historyPending, ms_urlParam, ms_sendReqs, ms_createReqs, ms_created,
    ms_toasts, ms_sends, ms_outcome>>

\* PdfUploader
VARIABLES
  pu_isSignedIn,          \* useAuth().isSignedIn
  pu_uploadedFile,        \* state uploadedFile: NoFile when null
  pu_isCreatingSession,   \* state isCreatingSession
  pu_uploading,           \* simulateProgressAndUpload calls awaiting the token or the upload
  pu_starting,            \* handleStartChat calls awaiting the token or the session
  pu_retryChat,           \* pdf ids held by the Retry buttons of "Failed to start chat" toasts
  pu_uploadReqs,          \* number of POST /api/pdf/upload-pdf
  pu_sessionReqs,         \* source_id of every POST /api/chat/create-session
  pu_toasts,              \* toasts shown since the last user action
  pu_files,               \* number of files handleFile accepted
  pu_starts,              \* number of handleStartChat calls that went ahead
  pu_navigated            \* <<pdfId, sessionId>> router.push was given: <<>> when none

puVars ==
  <<pu_isSignedIn, pu_uploadedFile, pu_isCreatingSession, pu_uploading,
    pu_starting, pu_retryChat, pu_uploadReqs, pu_sessionReqs, pu_toasts,
    pu_files, pu_starts, pu_navigated>>

\* Sidebar
VARIABLES
  sb_user,                \* user?.id is available
  sb_chatSessions,        \* the chat sessions useChatSessions lists
  sb_activeChat,          \* state activeChat: 0 when null
  sb_confirmDelete,       \* state confirmDelete: the modal is open
  sb_chatToDelete,        \* state chatToDelete: 0 when null
  sb_deleting,            \* confirmDeleteChat calls awaiting DELETE /api/chat/{id}
  sb_deleteReqs,          \* chat id of every DELETE /api/chat/{id}
  sb_clicks,              \* number of delete buttons clicked
  sb_openedFor            \* the chat whose delete button was clicked last

sbVars ==
  <<sb_user, sb_chatSessions, sb_activeChat, sb_confirmDelete, sb_chatToDelete,
    sb_deleting, sb_deleteReqs, sb_clicks, sb_openedFor>>

\* The dashboard page on view, and the endpoints whose latest request failed
\* with no user action since.
\* CsvUploader (src/components/CSVuploader.tsx)
VARIABLES
  cu_isSignedIn,          \* useAuth().isSignedIn
  cu_user,                \* useUser().user?.id is available
  cu_dropSignedIn,        \* isSignedIn as the first render saw it: handleDrop's closure
  cu_dropUser,            \* user?.id present as the first render saw it
  cu_uploadedFile,        \* state uploadedFile: NoCsvFile when null
  cu_isCreatingSession,   \* state isCreatingSession
  cu_uploading,           \* ids of the files whose POST /api/csv/upload-csv is pending
  cu_uploadReqs,          \* name of the file of every POST /api/csv/upload-csv
  cu_creating,            \* createChatSession calls awaiting the session: the closure's csvId
  cu_sessionReqs,         \* source_id of every POST /api/chat/create-session
  cu_toasts,              \* toasts shown since the last user action
  cu_files,               \* number of files handed to handleFileUpload and accepted
  cu_starts,              \* number of create-session requests started
  cu_navigated            \* router.push target <<csvId, sessionId>>, <<>> before

cuVars ==
  <<cu_isSignedIn, cu_user, cu_dropSignedIn, cu_dropUser, cu_uploadedFile,
    cu_isCreatingSession, cu_uploading, cu_uploadReqs, cu_creating,
    cu_sessionReqs, cu_toasts, cu_files, cu_starts, cu_navigated>>

\* The row-level-security policies of web_pages (src/unnamed/part_008) and
\* document_chunks (src/backend/setup_document_chunks.sql)
VARIABLES
  rl_rows,                \* the rows of each table: id and user_id
  rl_last,                \* the last statement: command, table, caller and the rows it was allowed on
  rl_ops                  \* number of statements executed

rlVars == <<rl_rows, rl_last, rl_ops>>

\* SourcesDisplay (src/unnamed/part_001)
VARIABLES
  sd_sources,             \* prop sources: undefined, or the list attached to the message
  sd_rendered             \* what the component returned: nothing yet, null, or the panel's entries

sdVars == <<sd_sources, sd_rendered>>

\* WebChatDynamicPage (src/app/dashboard/chats/web-chat/page.tsx)
VARIABLES
  wc_phase,               \* "constructed" before the first effects, "mounted" after
  wc_user,                \* isLoaded && user?.id
  wc_urlSid,              \* searchParams.get('sessionId'): "" when absent
  wc_existing,            \* the server's sessions of the user for this web page, newest first
  wc_webData,             \* state webData is set
  wc_sessionId,           \* state sessionId: "" at first
  wc_isCreatingSession,   \* state isCreatingSession
  wc_pc,                  \* where fetchWebDetails is: idle, details, lookup, creating, done
  wc_lookupReqs,          \* number of GET /api/chat/sessions
  wc_createReqs,          \* number of POST /api/chat/create-session
  wc_toasts               \* toasts shown

wcVars ==
  <<wc_phase, wc_user, wc_urlSid, wc_existing, wc_webData, wc_sessionId,
    wc_isCreatingSession, wc_pc, wc_lookupReqs, wc_createReqs, wc_toasts>>

VARIABLES route, failed

\* What each component leaves alone: the other components and the page.
agOthers ==
  <<route, csVars, msVars, puVars, sbVars, cuVars, rlVars, sdVars, wcVars>>
csOthers ==
  <<route, agVars, msVars, puVars, sbVars, cuVars, rlVars, sdVars, wcVars>>
msOthers ==
  <<route, agVars, csVars, puVars, sbVars, cuVars, rlVars, sdVars, wcVars>>
puOthers ==
  <<route, agVars, csVars, msVars, sbVars, cuVars, rlVars, sdVars, wcVars>>
sbOthers ==
  <<route, agVars, csVars, msVars, puVars, cuVars, rlVars, sdVars, wcVars>>
cuOthers ==
  <<route, agVars, csVars, msVars, puVars, sbVars, rlVars, sdVars, wcVars>>
rlOthers ==
  <<route, agVars, csVars, msVars, puVars, sbVars, cuVars, sdVars, wcVars>>
sdOthers ==
  <<route, agVars, csVars, msVars, puVars, sbVars, cuVars, rlVars, wcVars>>
wcOthers ==
  <<route, agVars, csVars, msVars, puVars, sbVars, cuVars, rlVars, sdVars>>

vars ==
  <<route, failed, agVars, csVars, msVars, puVars, sbVars, cuVars,
    rlVars, sdVars, wcVars>>

\* ------------------------------------------------------------------ bounds
\* Accepted sends per mounted AgentChatSection, and per mounted ChatSection.
MaxAgentSends == 2
MaxChatSends == 1
\* Accepted sends per mounted MultipleSourcesChat.
MaxMultiSends == 2
\* Files handed to PdfUploader.handleFile, and Start Chat attempts.
MaxUploads == 2
MaxStartChats == 2
\* Files handed to CsvUploader.handleFileUpload, and Start Chatting clicks.
MaxCsvUploads == 2
MaxCsvStarts == 2
\* SQL statements executed against the tables under row-level security.
MaxStatements == 2
\* Length of the longest list of sources handed to SourcesDisplay.
MaxSources == 6
\* Delete buttons clicked in the Sidebar.
MaxDeleteClicks == 2

\* ------------------------------------------------------------ input sets
\* What the user can have in the input box: empty, blank, a question.
Inputs == {"", " ", "hi"}

\* String.prototype.trim on the inputs above.
\* The sequence without its i-th element.
RemoveAt(seq, i) == SubSeq(seq, 1, i - 1) \o SubSeq(seq, i + 1, Len(seq))

Trim(s) == IF s = " " THEN "" ELSE s

\* The fields a JSON data event can carry (StreamChunk).
Fields == {"content:a", "content:b", "content:", "sources:s1", "error:boom"}

\* The replies the servers are taken to send: event sequences.
AgentReplies ==
  { <<"content:a", "content:b">>,
    <<"sources:s1", "content:b", "[DONE]">>,
    <<"content:a", "error:boom">> }
ChatReplies ==
  { <<"content:a", "content:b">>,
    <<"sources:s1", "content:b", "[DONE]">> }

\* Text shown in place of a reply that failed.
ErrorText == <<"Sorry, I encountered an error">>

\* ------------------------------------------------- the SSE byte stream
\* One event on the wire: "data: <payload>\n\n", the payload a JSON object or
\* [DONE].  The stream is a sequence of symbols: the prefix, the payload, the
\* two newlines; a read returns any non-empty prefix of what is left, so it
\* ends between events, or inside a line (after "data: "), or after the line.
EncodeEvent(e) == <<"data: ", e, "\n\n">>

RECURSIVE Encode(_)
Encode(events) ==
  IF events = <<>> THEN <<>>
  ELSE EncodeEvent(Head(events)) \o Encode(Tail(events))

\* chunk.split("\n"): the lines of one read, in order.
RECURSIVE SplitLines(_, _)
SplitLines(chunk, cur) ==
  IF chunk = <<>> THEN <<cur>>
  ELSE IF Head(chunk) = "\n\n"
    THEN <<cur, <<>>>> \o SplitLines(Tail(chunk), <<>>)
    ELSE SplitLines(Tail(chunk), Append(cur, Head(chunk)))

\* line.startsWith("data: ") and line.slice(6).
StartsWithData(line) == Len(line) >= 1 /\ line[1] = "data: "
Payload(line) == Tail(line)

\* JSON.parse of a payload: the field of a complete object, or a SyntaxError.
JsonParse(p) ==
  IF Len(p) = 1 /\ p[1] \in Fields THEN p[1] ELSE "SyntaxError"

\* parsed.content, parsed.error, parsed.sources of a parsed event.
ContentOf(f) ==
  IF f = "content:a" THEN <<"a">>
  ELSE IF f = "content:b" THEN <<"b">>
  ELSE <<>>
HasError(f) == f = "error:boom"
SourcesOf(f) == IF f = "sources:s1" THEN <<"s1">> ELSE <<>>

\* The content the server sent in a reply: its content fields, in order.
RECURSIVE SentContent(_)
SentContent(events) ==
  IF events = <<>> THEN <<>>
  ELSE (IF Head(events) \in Fields THEN ContentOf(Head(events)) ELSE <<>>)
       \o SentContent(Tail(events))

\* ============================================================ AgentChatSection
\* The component exists in two versions, chosen at mount: "pdf" (the PDF
\* analysis chat) and "multi" (the multi-agent chat).
\* Session ids a page can hand to the component: 101 is a UUID, 102 is not.
AgentSessionProps == {0, 101, 102}
IsValidUuid(id) == id = 101

\* What GET /api/agents/sessions/{id}/messages can return for session 101.
AgentHistories ==
  { << [id |-> 901, role |-> "user", message |-> <<"q">>, created_at |-> 1],
       [id |-> 902, role |-> "assistant", message |-> <<"r">>, created_at |-> 2] >>,
    << [id |-> 902, role |-> "assistant", message |-> <<"r">>, created_at |-> 2],
       [id |-> 901, role |-> "user", message |-> <<"q">>, created_at |-> 1] >> }

AgentMessage(id, type, content, streaming) ==
  [id |-> id, type |-> type, content |-> content, isStreaming |-> streaming,
   sources |-> <<>>]

\* msgs.slice().sort((a, b) => a.timestamp - b.timestamp): a stable sort.
RECURSIVE InsertByTimestamp(_, _)
InsertByTimestamp(sorted, m) ==
  IF sorted = <<>> THEN <<m>>
  ELSE IF Head(sorted).created_at <= m.created_at
    THEN <<Head(sorted)>> \o InsertByTimestamp(Tail(sorted), m)
    ELSE <<m>> \o sorted

RECURSIVE sortMessagesByTimestamp(_)
sortMessagesByTimestamp(msgs) ==
  IF msgs = <<>> THEN <<>>
  ELSE InsertByTimestamp(sortMessagesByTimestamp(SubSeq(msgs, 1, Len(msgs) - 1)),
                         msgs[Len(msgs)])

\* loadSession's map of the stored rows to AgentMessage.
FormatAgentMessages(rows) ==
  [i \in 1..Len(rows) |->
     AgentMessage(rows[i].id,
                  IF rows[i].role = "user" THEN "user" ELSE "ai_agent",
                  rows[i].message, FALSE)]

\* setMessages(prev => prev.map(msg => msg.id === id ? {...} : msg)) variants.
AgSetContent(msgs, id, c) ==
  [i \in 1..Len(msgs) |->
     IF msgs[i].id = id THEN [msgs[i] EXCEPT !.content = c] ELSE msgs[i]]
AgSetContentStreaming(msgs, id, c) ==
  [i \in 1..Len(msgs) |->
     IF msgs[i].id = id
       THEN [msgs[i] EXCEPT !.content = c, !.isStreaming = TRUE] ELSE msgs[i]]
AgSetSources(msgs, id, s) ==
  [i \in 1..Len(msgs) |->
     IF msgs[i].id = id THEN [msgs[i] EXCEPT !.sources = s] ELSE msgs[i]]
AgMarkComplete(msgs, id) ==
  [i \in 1..Len(msgs) |->
     IF msgs[i].id = id THEN [msgs[i] EXCEPT !.isStreaming = FALSE] ELSE msgs[i]]
AgSetError(msgs, id) ==
  [i \in 1..Len(msgs) |->
     IF msgs[i].id = id
       THEN [msgs[i] EXCEPT !.content = ErrorText, !.isStreaming = FALSE]
       ELSE msgs[i]]

\* The line loop of the "pdf" version over the lines of one read.  A thrown
\* Error(data.error) and a SyntaxError both land in the loop's own catch.
RECURSIVE AgPdfLines(_, _, _)
AgPdfLines(lines, id, st) ==
  IF lines = <<>> THEN st
  ELSE LET line == Head(lines)
           rest == Tail(lines)
       IN IF line = <<>> \/ ~StartsWithData(line) THEN AgPdfLines(rest, id, st)
          ELSE LET f == JsonParse(Payload(line))
               IN IF f = "SyntaxError" \/ HasError(f)
                    THEN AgPdfLines(rest, id, st)
                    ELSE LET acc == st.acc \o ContentOf(f)
                         IN AgPdfLines(rest, id,
                              [acc |-> acc,
                               msgs |-> AgSetContentStreaming(st.msgs, id, acc)])

\* The line loop of the "multi" version.
RECURSIVE AgMultiLines(_, _, _)
AgMultiLines(lines, id, st) ==
  IF lines = <<>> THEN st
  ELSE LET line == Head(lines)
           rest == Tail(lines)
       IN IF ~StartsWithData(line) THEN AgMultiLines(rest, id, st)
          ELSE IF Payload(line) = <<"[DONE]">>
            THEN AgMultiLines(rest, id,
                   [st EXCEPT !.msgs = AgMarkComplete(st.msgs, id)])
          ELSE LET f == JsonParse(Payload(line))
               IN IF f = "SyntaxError" THEN AgMultiLines(rest, id, st)
                  ELSE LET m1 == IF SourcesOf(f) # <<>>
                                   THEN AgSetSources(st.msgs, id, SourcesOf(f))
                                   ELSE st.msgs
                           acc == st.acc \o ContentOf(f)
                           m2 == IF ContentOf(f) # <<>>
                                   THEN AgSetContent(m1, id, acc) ELSE m1
                       IN AgMultiLines(rest, id, [acc |-> acc, msgs |-> m2])

\* Some line of the lines is a complete data event with an error field.
AgHasErrorEvent(lines) ==
  \E i \in 1..Len(lines) :
    StartsWithData(lines[i]) /\ HasError(JsonParse(Payload(lines[i])))

AgProcessChunk(variant, chunk, id, st) ==
  IF variant = "pdf"
    THEN AgPdfLines(SplitLines(chunk, <<>>), id, st)
    ELSE AgMultiLines(SplitLines(chunk, <<>>), id, st)

AgInit ==
  /\ ag_variant \in {"pdf", "multi"}
  /\ ag_sessionId \in AgentSessionProps
  \* user?.id is read by the load-session effect alone, which needs a sessionId
  /\ ag_user \in (IF ag_sessionId = 0 THEN {TRUE} ELSE BOOLEAN)
  /\ ag_messages = <<>>
  /\ ag_inputValue = ""
  /\ ag_isLoading = FALSE
  /\ ag_currentSession = 0
  /\ ag_abortRef = FALSE
  /\ ag_pc = "idle"
  /\ ag_wire = <<>>
  /\ ag_acc = <<>>
  /\ ag_aiId = 0
  \* the load-session effect of the first render
  /\ ag_loadPending = (ag_sessionId # 0 /\ ag_user /\ IsValidUuid(ag_sessionId))
  /\ ag_chatReqs = <<>>
  /\ ag_createReqs = 0
  /\ ag_created = <<>>
  /\ ag_toasts = {}
  /\ ag_sends = 0
  /\ ag_stopClicked = FALSE
  /\ ag_sawError = FALSE
  /\ ag_outcome = "none"

\* The input box: onChange={(e) => setInputValue(e.target.value)}, disabled
\* while a send is loading.
AG_Type(v) ==
  /\ route = "agents"
  /\ ~ag_isLoading
  /\ v # ag_inputValue
  /\ ag_inputValue' = v
  /\ UNCHANGED <<ag_variant, ag_sessionId, ag_user, ag_messages, ag_isLoading,
                 ag_currentSession, ag_abortRef, ag_pc, ag_wire, ag_acc, ag_aiId,
                 ag_loadPending, ag_chatReqs, ag_createReqs, ag_created, ag_toasts,
                 ag_sends, ag_stopClicked, ag_sawError, ag_outcome>>
  /\ failed' = {}
  /\ UNCHANGED agOthers

\* user?.id becomes available: the load-session effect runs again.
AG_UserLoaded ==
  /\ route = "agents"
  /\ ~ag_user
  /\ ag_user' = TRUE
  /\ IF ag_sessionId = 0 THEN UNCHANGED <<ag_loadPending, ag_messages>>
     ELSE IF ~IsValidUuid(ag_sessionId)
       THEN ag_messages' = <<>> /\ UNCHANGED ag_loadPending
       ELSE ag_loadPending' = TRUE /\ UNCHANGED ag_messages
  /\ UNCHANGED <<ag_variant, ag_sessionId, ag_inputValue, ag_isLoading,
                 ag_currentSession, ag_abortRef, ag_pc, ag_wire, ag_acc, ag_aiId,
                 ag_chatReqs, ag_createReqs, ag_created, ag_toasts, ag_sends,
                 ag_stopClicked, ag_sawError, ag_outcome>>
  /\ UNCHANGED failed
  /\ UNCHANGED agOthers

\* loadSession after its fetch: the stored messages replace the list; a failed
\* load is logged ("pdf") or empties the list with a toast ("multi").
AG_LoadSessionDone(outcome, rows) ==
  /\ route = "agents"
  /\ ag_loadPending
  /\ ag_loadPending' = FALSE
  /\ IF outcome = "ok"
       THEN /\ ag_messages' = FormatAgentMessages(sortMessagesByTimestamp(rows))
            /\ UNCHANGED ag_toasts
       ELSE IF ag_variant = "pdf"
         THEN UNCHANGED <<ag_messages, ag_toasts>>
         ELSE /\ ag_messages' = <<>>
              /\ ag_toasts' = ag_toasts \cup {"error: Failed to load chat"}
  /\ UNCHANGED <<ag_variant, ag_sessionId, ag_user, ag_inputValue, ag_isLoading,
                 ag_currentSession, ag_abortRef, ag_pc, ag_wire, ag_acc, ag_aiId,
                 ag_chatReqs, ag_createReqs, ag_created, ag_sends, ag_stopClicked, ag_sawError, ag_outcome>>
  /\ UNCHANGED failed
  /\ UNCHANGED agOthers

\* sendMessage up to its first await.  With a current session the AI
\* placeholder is appended and the chat request goes out; without one the
\* handler waits for createSession.
AG_SendMessage ==
  /\ route = "agents"
  /\ Trim(ag_inputValue) # "" /\ ~ag_isLoading
  /\ ag_sends < MaxAgentSends
  /\ ag_sends' = ag_sends + 1
  /\ ag_inputValue' = ""
  /\ ag_isLoading' = TRUE
  /\ ag_toasts' = {}
  /\ ag_stopClicked' = FALSE
  /\ ag_acc' = <<>>
  /\ ag_wire' = <<>>
  /\ LET userMessage == AgentMessage(2 * ag_sends' - 1, "user", <<ag_inputValue>>, FALSE)
         aiMessage == AgentMessage(2 * ag_sends', "ai_agent", <<>>, TRUE)
     IN IF ag_currentSession = 0
          THEN /\ ag_messages' = Append(ag_messages, userMessage)
               /\ ag_createReqs' = ag_createReqs + 1
               /\ ag_pc' = "creating"
               /\ UNCHANGED <<ag_abortRef, ag_chatReqs, ag_aiId>>
          ELSE /\ ag_messages' = Append(Append(ag_messages, userMessage), aiMessage)
               /\ ag_aiId' = aiMessage.id
               /\ ag_abortRef' = TRUE
               /\ ag_chatReqs' = Append(ag_chatReqs, ag_currentSession)
               /\ ag_pc' = "fetching"
               /\ UNCHANGED ag_createReqs
  /\ UNCHANGED <<ag_variant, ag_sessionId, ag_user, ag_currentSession,
                 ag_loadPending, ag_created>>
  /\ ag_sawError' = FALSE
  /\ ag_outcome' = "none"
  /\ failed' = {}
  /\ UNCHANGED agOthers

\* A createSession that returns the new id without storing the session: what
\* one session per mount rules out.
AG_CreateSessionDoneForgetting(ok) ==
  /\ route = "agents"
  /\ ag_pc = "creating"
  /\ IF ok
       THEN LET newId == 201 + Len(ag_created)
                aiMessage == AgentMessage(2 * ag_sends, "ai_agent", <<>>, TRUE)
            IN /\ ag_created' = Append(ag_created, newId)
               /\ ag_messages' = Append(ag_messages, aiMessage)
               /\ ag_aiId' = aiMessage.id
               /\ ag_abortRef' = TRUE
               /\ ag_chatReqs' = Append(ag_chatReqs, newId)
               /\ ag_pc' = "fetching"
               /\ UNCHANGED <<ag_toasts, ag_isLoading>>
       ELSE /\ ag_toasts' = ag_toasts \cup {"error: Failed to create chat session"}
            /\ ag_isLoading' = FALSE
            /\ ag_pc' = "idle"
            /\ UNCHANGED <<ag_created, ag_messages, ag_aiId, ag_abortRef, ag_chatReqs>>
  /\ UNCHANGED <<ag_variant, ag_sessionId, ag_user, ag_inputValue, ag_wire, ag_acc,
                 ag_loadPending, ag_createReqs, ag_sends, ag_stopClicked,
                 ag_sawError, ag_currentSession>>
  /\ ag_outcome' = IF ok THEN ag_outcome ELSE "failed"
  /\ failed' = IF ~ok THEN failed \cup {"agent-create"} ELSE failed
  /\ UNCHANGED agOthers

\* createSession has an outcome and sendMessage continues: a new session is
\* stored and used, a failure ends the send.
AG_CreateSessionDone(ok) ==
  /\ route = "agents"
  /\ ag_pc = "creating"
  /\ IF ok
       THEN LET newId == 201 + Len(ag_created)
                aiMessage == AgentMessage(2 * ag_sends, "ai_agent", <<>>, TRUE)
            IN /\ ag_currentSession' = newId
               /\ ag_created' = Append(ag_created, newId)
               /\ ag_messages' = Append(ag_messages, aiMessage)
               /\ ag_aiId' = aiMessage.id
               /\ ag_abortRef' = TRUE
               /\ ag_chatReqs' = Append(ag_chatReqs, newId)
               /\ ag_pc' = "fetching"
               /\ UNCHANGED <<ag_toasts, ag_isLoading>>
       ELSE /\ ag_toasts' = ag_toasts \cup {"error: Failed to create chat session"}
            /\ ag_isLoading' = FALSE
            /\ ag_pc' = "idle"
            /\ UNCHANGED <<ag_currentSession, ag_created, ag_messages, ag_aiId,
                           ag_abortRef, ag_chatReqs>>
  /\ UNCHANGED <<ag_variant, ag_sessionId, ag_user, ag_inputValue, ag_wire, ag_acc,
                 ag_loadPending, ag_createReqs, ag_sends, ag_stopClicked, ag_sawError>>
  /\ ag_outcome' = IF ok THEN ag_outcome ELSE "failed"
  /\ failed' = IF ~ok THEN failed \cup {"agent-create"} ELSE failed
  /\ UNCHANGED agOthers

\* The catch block for an error that is not an AbortError, then finally.
AgSendFailed ==
  /\ ag_toasts' = ag_toasts \cup {"error: Failed to send message"}
  /\ ag_messages' = AgSetError(ag_messages, ag_aiId)
  /\ ag_isLoading' = FALSE
  /\ ag_abortRef' = FALSE
  /\ ag_pc' = "idle"
  /\ ag_wire' = <<>>
  /\ ag_acc' = <<>>
  /\ ag_outcome' = "failed"

\* The chat fetch has an outcome: a body to read, or a failure.
AG_ChatResponse(outcome, reply) ==
  /\ route = "agents"
  /\ ag_pc = "fetching"
  /\ IF outcome = "ok"
       THEN /\ ag_pc' = "streaming"
            /\ ag_wire' = Encode(reply)
            /\ UNCHANGED <<ag_toasts, ag_messages, ag_isLoading, ag_abortRef, ag_acc,
                           ag_outcome>>
       ELSE /\ AgSendFailed
  /\ UNCHANGED <<ag_variant, ag_sessionId, ag_user, ag_inputValue,
                 ag_currentSession, ag_aiId, ag_loadPending, ag_chatReqs,
                 ag_createReqs, ag_created, ag_sends, ag_stopClicked, ag_sawError>>
  /\ failed' = IF outcome # "ok" THEN failed \cup {"agent-chat"} ELSE failed
  /\ UNCHANGED agOthers


\* reader.read() returns the next n bytes and the line loop runs over them.
AG_Read(n) ==
  /\ route = "agents"
  /\ ag_pc = "streaming"
  /\ n \in 1..Len(ag_wire)
  /\ LET st == AgProcessChunk(ag_variant, SubSeq(ag_wire, 1, n), ag_aiId,
                              [acc |-> ag_acc, msgs |-> ag_messages])
     IN /\ ag_acc' = st.acc
        /\ ag_messages' = st.msgs
  /\ ag_wire' = SubSeq(ag_wire, n + 1, Len(ag_wire))
  /\ UNCHANGED <<ag_variant, ag_sessionId, ag_user, ag_inputValue, ag_isLoading,
                 ag_currentSession, ag_abortRef, ag_pc, ag_aiId, ag_loadPending,
                 ag_chatReqs, ag_createReqs, ag_created, ag_toasts, ag_sends,
                 ag_stopClicked, ag_outcome>>
  /\ ag_sawError' = (ag_sawError \/ AgHasErrorEvent(SplitLines(SubSeq(ag_wire, 1, n), <<>>)))
  /\ UNCHANGED failed
  /\ UNCHANGED agOthers

\* reader.read() returns done: the "pdf" version marks the message complete;
\* both run finally.
AG_ReadDone ==
  /\ route = "agents"
  /\ ag_pc = "streaming"
  /\ ag_wire = <<>>
  /\ ag_messages' = IF ag_variant = "pdf"
                      THEN AgMarkComplete(ag_messages, ag_aiId) ELSE ag_messages
  /\ ag_isLoading' = FALSE
  /\ ag_abortRef' = FALSE
  /\ ag_pc' = "idle"
  /\ ag_acc' = <<>>
  /\ UNCHANGED <<ag_variant, ag_sessionId, ag_user, ag_inputValue,
                 ag_currentSession, ag_wire, ag_aiId, ag_loadPending,
                 ag_chatReqs, ag_createReqs, ag_created, ag_toasts, ag_sends,
                 ag_stopClicked, ag_sawError>>
  /\ ag_outcome' = "finished"
  /\ UNCHANGED failed
  /\ UNCHANGED agOthers

\* reader.read() rejects (the connection broke while streaming).
AG_ReadError ==
  /\ route = "agents"
  /\ ag_pc = "streaming"
  /\ AgSendFailed
  /\ UNCHANGED <<ag_variant, ag_sessionId, ag_user, ag_inputValue,
                 ag_currentSession, ag_aiId, ag_loadPending,
                 ag_chatReqs, ag_createReqs, ag_created, ag_sends, ag_stopClicked, ag_sawError>>
  /\ failed' = failed \cup {"agent-chat"}
  /\ UNCHANGED agOthers

\* A stop button that lowers isLoading and leaves the request running: what
\* one send at a time rules out.
AG_StopGenerationWithoutAbort ==
  /\ route = "agents"
  /\ ag_isLoading
  /\ ag_stopClicked' = TRUE
  /\ IF ag_abortRef
       THEN /\ ag_isLoading' = FALSE
            /\ ag_toasts' = ag_toasts \cup {"info: Generation stopped"}
                 \cup (IF ag_variant = "pdf" THEN {"info: Request cancelled"} ELSE {})
            /\ UNCHANGED <<ag_abortRef, ag_pc, ag_wire, ag_acc>>
       ELSE UNCHANGED <<ag_isLoading, ag_toasts, ag_abortRef, ag_pc, ag_wire, ag_acc>>
  /\ UNCHANGED <<ag_variant, ag_sessionId, ag_user, ag_messages, ag_inputValue,
                 ag_currentSession, ag_aiId, ag_loadPending,
                 ag_chatReqs, ag_createReqs, ag_created, ag_sends, ag_sawError>>
  /\ ag_outcome' = IF ag_abortRef THEN "stopped" ELSE ag_outcome
  /\ failed' = {}
  /\ UNCHANGED agOthers

\* The stop button (shown while isLoading).  With a controller in the ref the
\* fetch is aborted: the pending await rejects with an AbortError, whose catch
\* shows a toast in the "pdf" version, and finally runs.  Without one, nothing.
AG_StopGeneration ==
  /\ route = "agents"
  /\ ag_isLoading
  /\ ag_stopClicked' = TRUE
  /\ IF ag_abortRef
       THEN /\ ag_isLoading' = FALSE
            /\ ag_toasts' = ag_toasts \cup {"info: Generation stopped"}
                 \cup (IF ag_variant = "pdf" THEN {"info: Request cancelled"} ELSE {})
            /\ ag_abortRef' = FALSE
            /\ ag_pc' = "idle"
            /\ ag_wire' = <<>>
            /\ ag_acc' = <<>>
       ELSE UNCHANGED <<ag_isLoading, ag_toasts, ag_abortRef, ag_pc, ag_wire, ag_acc>>
  /\ UNCHANGED <<ag_variant, ag_sessionId, ag_user, ag_messages, ag_inputValue,
                 ag_currentSession, ag_aiId, ag_loadPending,
                 ag_chatReqs, ag_createReqs, ag_created, ag_sends, ag_sawError>>
  /\ ag_outcome' = IF ag_abortRef THEN "stopped" ELSE ag_outcome
  /\ failed' = {}
  /\ UNCHANGED agOthers

\* ================================================================ ChatSection
\* The chat sessions of one PDF that the page can be pointed at.
ChatSessions == {1, 2}

\* JSON.stringify / JSON.parse of a list of source citations (the sources
\* column holds text).  A text that is not a list does not parse.
JsonEncodeSources(list) == <<"[">> \o list \o <<"]">>
JsonSourcesOk(text) ==
  Len(text) >= 2 /\ text[1] = "[" /\ text[Len(text)] = "]"
JsonParseSources(text) == SubSeq(text, 2, Len(text) - 1)

ApiMessage(id, role, message, sources) ==
  [id |-> id, role |-> role, message |-> message, sources |-> sources]

\* What GET /api/chat/{session}/messages can return: the stored rows of the
\* session, with the sources column empty or JSON text.
ChatHistories(session) ==
  IF session = 1
    THEN { << ApiMessage(901, "user", <<"q1">>, <<>>),
              ApiMessage(902, "ai-agent", <<"r1">>, JsonEncodeSources(<<"s1", "s2">>)) >> }
    ELSE { << ApiMessage(903, "user", <<"q2">>, <<>>),
              ApiMessage(904, "assistant", <<"r2">>, JsonEncodeSources(<<>>)),
              ApiMessage(905, "user", <<"q3">>, <<>>) >> }

ChatMessage(id, type, content, streaming, sources) ==
  [id |-> id, type |-> type, content |-> content, isStreaming |-> streaming,
   sources |-> sources]

\* loadMessages' map of the stored rows to Message; an absent sources list and
\* an empty one are both <<>> (SourcesDisplay renders neither).
\* A mapping that takes only the role "assistant" for an assistant message: what
\* the role mapping of the history rules out.
LoadedMessagesAssistantOnly(rows) ==
  [i \in 1..Len(rows) |->
     ChatMessage(rows[i].id,
                 IF rows[i].role = "assistant" THEN "ai_agent" ELSE "user",
                 rows[i].message, FALSE,
                 IF rows[i].sources # <<>>
                   THEN JsonParseSources(rows[i].sources) ELSE <<>>)]

LoadedMessages(rows) ==
  [i \in 1..Len(rows) |->
     ChatMessage(rows[i].id,
                 IF rows[i].role = "user" THEN "user" ELSE "ai_agent",
                 rows[i].message, FALSE,
                 IF rows[i].sources # <<>>
                   THEN JsonParseSources(rows[i].sources) ELSE <<>>)]

WelcomeMessage == ChatMessage(0, "ai_agent", <<"Hello!">>, FALSE, <<>>)

ChatErrorText == <<"I apologize, but I'm having trouble">>

\* setMessages(prev => ...) on the last message, when it is the assistant's.
CsIsLast(msgs, id) == Len(msgs) > 0 /\ msgs[Len(msgs)].id = id
CsSetLastContent(msgs, id, c) ==
  IF CsIsLast(msgs, id) THEN [msgs EXCEPT ![Len(msgs)].content = c] ELSE msgs
CsSetLastSources(msgs, id, src) ==
  IF CsIsLast(msgs, id) THEN [msgs EXCEPT ![Len(msgs)].sources = src] ELSE msgs
CsMarkLastComplete(msgs, id) ==
  IF CsIsLast(msgs, id) THEN [msgs EXCEPT ![Len(msgs)].isStreaming = FALSE] ELSE msgs

\* The catch block's setMessages: drop the last message, append the apology.
CsReplaceLastByError(msgs, id) ==
  Append(SubSeq(msgs, 1, Len(msgs) - 1),
         ChatMessage(id, "ai_agent", ChatErrorText, FALSE, <<>>))

\* The line loop over the lines of one read; [DONE] returns from the handler.
RECURSIVE CsLines(_, _, _)
CsLines(lines, id, st) ==
  IF lines = <<>> \/ st.done THEN st
  ELSE LET line == Head(lines)
           rest == Tail(lines)
       IN IF ~StartsWithData(line) THEN CsLines(rest, id, st)
          ELSE IF Payload(line) = <<"[DONE]">>
            THEN [st EXCEPT !.done = TRUE,
                            !.msgs = CsMarkLastComplete(st.msgs, id)]
          ELSE LET f == JsonParse(Payload(line))
               IN IF f = "SyntaxError" THEN CsLines(rest, id, st)
                  ELSE LET m1 == IF SourcesOf(f) # <<>>
                                   THEN CsSetLastSources(st.msgs, id, SourcesOf(f))
                                   ELSE st.msgs
                           acc == st.acc \o ContentOf(f)
                           m2 == IF ContentOf(f) # <<>>
                                   THEN CsSetLastContent(m1, id, acc) ELSE m1
                       IN CsLines(rest, id,
                                  [acc |-> acc, msgs |-> m2, done |-> FALSE])

CsInit ==
  \* PdfChatPage mounts the component with sessionId "" (its initial state)
  /\ cs_sessionId = 0
  /\ cs_user \in BOOLEAN
  /\ cs_messages = <<>>
  /\ cs_inputMessage = ""
  /\ cs_isTyping = FALSE
  /\ cs_isLoading = TRUE
  /\ cs_streamingMessageId = 0
  \* the loadMessages effect of the first render
  /\ cs_loads = IF cs_sessionId # 0 /\ cs_user THEN {cs_sessionId} ELSE {}
  /\ cs_pc = "idle"
  /\ cs_wire = <<>>
  /\ cs_acc = <<>>
  /\ cs_asstId = 0
  /\ cs_sends = 0
  /\ cs_sent = <<>>
  /\ cs_outcome = "none"
  /\ cs_toasts = {}
  /\ cs_before = <<>>

\* The page sets another sessionId (PdfChatPage.fetchPdfDetails): the
\* loadMessages effect runs for it.
CS_SetSession(session) ==
  /\ route = "pdf-chat"
  /\ session # cs_sessionId
  /\ cs_sessionId' = session
  /\ cs_loads' = IF cs_user THEN cs_loads \cup {session} ELSE cs_loads
  /\ UNCHANGED <<cs_user, cs_messages, cs_inputMessage, cs_isTyping, cs_isLoading,
                 cs_streamingMessageId, cs_pc, cs_wire, cs_acc, cs_asstId,
                 cs_sends, cs_sent, cs_outcome, cs_toasts, cs_before>>
  /\ UNCHANGED failed
  /\ UNCHANGED csOthers

\* user?.id becomes available: the loadMessages effect runs again.
CS_UserLoaded ==
  /\ route = "pdf-chat"
  /\ ~cs_user
  /\ cs_user' = TRUE
  /\ cs_loads' = IF cs_sessionId # 0 THEN cs_loads \cup {cs_sessionId} ELSE cs_loads
  /\ UNCHANGED <<cs_sessionId, cs_messages, cs_inputMessage, cs_isTyping,
                 cs_isLoading, cs_streamingMessageId, cs_pc, cs_wire, cs_acc,
                 cs_asstId, cs_sends, cs_sent, cs_outcome, cs_toasts, cs_before>>
  /\ UNCHANGED failed
  /\ UNCHANGED csOthers

\* loadMessages after its fetch.  "success": ok and data.success; "refused":
\* not ok, or success false; "threw": the fetch or the parsing threw.
CS_LoadMessagesDone(session, outcome, rows) ==
  /\ route = "pdf-chat"
  /\ session \in cs_loads
  /\ rows \in ChatHistories(session)
  /\ cs_loads' = cs_loads \ {session}
  /\ cs_messages' =
       IF outcome = "success" THEN LoadedMessages(rows)
       ELSE IF outcome = "threw" THEN <<WelcomeMessage>>
       ELSE cs_messages
  /\ cs_isLoading' = FALSE
  /\ UNCHANGED <<cs_sessionId, cs_user, cs_inputMessage, cs_isTyping,
                 cs_streamingMessageId, cs_pc, cs_wire, cs_acc, cs_asstId,
                 cs_sends, cs_sent, cs_outcome, cs_toasts, cs_before>>
  /\ UNCHANGED failed
  /\ UNCHANGED csOthers

\* The input box, rendered once loading is over and disabled while typing.
CS_Type(v) ==
  /\ route = "pdf-chat"
  /\ ~cs_isLoading /\ ~cs_isTyping
  /\ v # cs_inputMessage
  /\ cs_inputMessage' = v
  /\ UNCHANGED <<cs_sessionId, cs_user, cs_messages, cs_isTyping, cs_isLoading,
                 cs_streamingMessageId, cs_loads, cs_pc, cs_wire, cs_acc,
                 cs_asstId, cs_sends, cs_sent, cs_outcome, cs_toasts, cs_before>>
  /\ failed' = {}
  /\ UNCHANGED csOthers

\* handleSendMessage up to its fetch, from the send button or the Enter key
\* (both rendered once loading is over and disabled while typing).
CS_HandleSendMessage ==
  /\ route = "pdf-chat"
  /\ ~cs_isLoading /\ ~cs_isTyping
  /\ Trim(cs_inputMessage) # "" /\ cs_sessionId # 0 /\ cs_user
  /\ cs_sends < MaxChatSends
  /\ cs_sends' = cs_sends + 1
  /\ cs_before' = cs_messages
  /\ cs_asstId' = 2 * cs_sends'
  /\ cs_messages' =
       Append(Append(cs_messages,
                     ChatMessage(2 * cs_sends' - 1, "user", <<cs_inputMessage>>,
                                 FALSE, <<>>)),
              ChatMessage(cs_asstId', "ai_agent", <<>>, TRUE, <<>>))
  /\ cs_inputMessage' = ""
  /\ cs_isTyping' = TRUE
  /\ cs_streamingMessageId' = cs_asstId'
  /\ cs_pc' = "fetching"
  /\ cs_wire' = <<>>
  /\ cs_acc' = <<>>
  /\ cs_sent' = <<>>
  /\ cs_outcome' = "none"
  /\ cs_toasts' = {}
  /\ UNCHANGED <<cs_sessionId, cs_user, cs_isLoading, cs_loads>>
  /\ failed' = {}
  /\ UNCHANGED csOthers

\* A catch block that shows no toast: what surfacing every failure rules out.
CsSendFailedQuietly ==
  /\ UNCHANGED cs_toasts
  /\ cs_messages' = CsReplaceLastByError(cs_messages, cs_asstId)
  /\ cs_isTyping' = FALSE
  /\ cs_streamingMessageId' = 0
  /\ cs_pc' = "idle"
  /\ cs_wire' = <<>>
  /\ cs_acc' = <<>>
  /\ cs_outcome' = "failed"

\* The catch block, then finally.
CsSendFailed ==
  /\ cs_toasts' = cs_toasts \cup {"error: Failed to send message"}
  /\ cs_messages' = CsReplaceLastByError(cs_messages, cs_asstId)
  /\ cs_isTyping' = FALSE
  /\ cs_streamingMessageId' = 0
  /\ cs_pc' = "idle"
  /\ cs_wire' = <<>>
  /\ cs_acc' = <<>>
  /\ cs_outcome' = "failed"

\* The send fetch has an outcome: a body to read, or a failure.
CS_SendResponse(outcome, reply) ==
  /\ route = "pdf-chat"
  /\ cs_pc = "fetching"
  /\ IF outcome = "ok"
       THEN /\ cs_pc' = "streaming"
            /\ cs_wire' = Encode(reply)
            /\ cs_sent' = SentContent(reply)
            /\ UNCHANGED <<cs_toasts, cs_messages, cs_isTyping,
                           cs_streamingMessageId, cs_acc, cs_outcome>>
       ELSE /\ CsSendFailed
            /\ UNCHANGED cs_sent
  /\ UNCHANGED <<cs_sessionId, cs_user, cs_inputMessage, cs_isLoading, cs_loads,
                 cs_asstId, cs_sends, cs_before>>
  /\ failed' = IF outcome # "ok" THEN failed \cup {"chat-send"} ELSE failed
  /\ UNCHANGED csOthers

\* reader.read() returns the next n bytes and the line loop runs over them.
CS_Read(n) ==
  /\ route = "pdf-chat"
  /\ cs_pc = "streaming"
  /\ n \in 1..Len(cs_wire)
  /\ LET st == CsLines(SplitLines(SubSeq(cs_wire, 1, n), <<>>), cs_asstId,
                       [acc |-> cs_acc, msgs |-> cs_messages, done |-> FALSE])
     IN /\ cs_messages' = st.msgs
        /\ IF st.done
             THEN /\ cs_isTyping' = FALSE
                  /\ cs_streamingMessageId' = 0
                  /\ cs_pc' = "idle"
                  /\ cs_wire' = <<>>
                  /\ cs_acc' = <<>>
                  /\ cs_outcome' = "finished"
             ELSE /\ cs_acc' = st.acc
                  /\ cs_wire' = SubSeq(cs_wire, n + 1, Len(cs_wire))
                  /\ UNCHANGED <<cs_isTyping, cs_streamingMessageId, cs_pc,
                                 cs_outcome>>
  /\ UNCHANGED <<cs_sessionId, cs_user, cs_inputMessage, cs_isLoading, cs_loads,
                 cs_asstId, cs_sends, cs_sent, cs_toasts, cs_before>>
  /\ UNCHANGED failed
  /\ UNCHANGED csOthers

\* reader.read() returns done without a [DONE] event: the loop breaks and
\* finally runs.
CS_ReadDone ==
  /\ route = "pdf-chat"
  /\ cs_pc = "streaming"
  /\ cs_wire = <<>>
  /\ cs_isTyping' = FALSE
  /\ cs_streamingMessageId' = 0
  /\ cs_pc' = "idle"
  /\ cs_acc' = <<>>
  /\ cs_outcome' = "finished"
  /\ UNCHANGED <<cs_sessionId, cs_user, cs_messages, cs_inputMessage,
                 cs_isLoading, cs_loads, cs_wire, cs_asstId, cs_sends, cs_sent,
                 cs_toasts, cs_before>>
  /\ UNCHANGED failed
  /\ UNCHANGED csOthers

\* reader.read() rejects (the connection broke while streaming).
CS_ReadError ==
  /\ route = "pdf-chat"
  /\ cs_pc = "streaming"
  /\ CsSendFailed
  /\ UNCHANGED <<cs_sessionId, cs_user, cs_inputMessage, cs_isLoading, cs_loads,
                 cs_asstId, cs_sends, cs_sent, cs_before>>
  /\ failed' = failed \cup {"chat-send"}
  /\ UNCHANGED csOthers

\* ======================================================== MultipleSourcesChat
\* What GET /api/multi/sessions/{id}/messages can return for session 301: a
\* question with its answer, and a question whose send failed before one.
MultiHistories ==
  { << ApiMessage(911, "user", <<"q1">>, <<>>),
       ApiMessage(912, "ai_agent", <<"r1">>, JsonEncodeSources(<<"reddit">>)) >>,
    << ApiMessage(911, "user", <<"q1">>, <<>>),
       ApiMessage(913, "user", <<"q2">>, <<>>),
       ApiMessage(914, "ai_agent", <<"r2">>, <<"not json">>) >> }

MultiMessage(id, type, content, sources_used) ==
  [id |-> id, type |-> type, content |-> content, sources_used |-> sources_used]

MultiErrorText == <<"Sorry, I encountered an error">>

\* loadChatHistory's loop: the rows are taken two at a time, the first kept
\* when its role is user, the second when its role is ai_agent.
RECURSIVE MultiLoadedFrom(_, _)
MultiLoadedFrom(rows, i) ==
  IF i > Len(rows) THEN <<>>
  ELSE LET userMessage == rows[i]
           first == IF userMessage.role = "user"
                      THEN << MultiMessage(userMessage.id, "user",
                                           userMessage.message, <<>>) >>
                      ELSE <<>>
           second ==
             IF i + 1 <= Len(rows) /\ rows[i + 1].role = "ai_agent"
               THEN LET aiMessage == rows[i + 1]
                    IN << MultiMessage(aiMessage.id, "assistant", aiMessage.message,
                            IF aiMessage.sources # <<>> /\ JsonSourcesOk(aiMessage.sources)
                              THEN JsonParseSources(aiMessage.sources) ELSE <<>>) >>
               ELSE <<>>
       IN first \o second \o MultiLoadedFrom(rows, i + 2)

MsInit ==
  /\ ms_phase = "constructed"
  /\ ms_urlSid \in {0, 301}
  /\ ms_user \in BOOLEAN
  /\ ms_sessionIdFromParams = 0
  /\ ms_messages = <<>>
  /\ ms_input = ""
  /\ ms_isLoading = FALSE
  /\ ms_isLoadingHistory = FALSE
  /\ ms_pc = "idle"
  /\ ms_userMsgId = 0
  /\ ms_mountCreate = FALSE
  /\ ms_historyPending = FALSE
  /\ ms_urlParam = 0
  /\ ms_sendReqs = <<>>
  /\ ms_createReqs = 0
  /\ ms_created = <<>>
  /\ ms_toasts = {}
  /\ ms_sends = 0
  /\ ms_outcome = "none"

\* The effects of the first render, in order: the URL effect sets
\* sessionIdFromParams; the history effect still sees it null, so with a user
\* it calls createNewSessionAndUpdateURL; then the re-render with the id from
\* the URL runs the history effect again, which calls loadChatHistory.
MS_Mount ==
  /\ route = "multi"
  /\ ms_phase = "constructed"
  /\ ms_phase' = "mounted"
  /\ ms_sessionIdFromParams' = ms_urlSid
  /\ ms_mountCreate' = ms_user
  /\ ms_createReqs' = IF ms_user THEN ms_createReqs + 1 ELSE ms_createReqs
  /\ ms_historyPending' = (ms_urlSid # 0 /\ ms_user)
  /\ ms_isLoadingHistory' = (ms_urlSid # 0 /\ ms_user)
  /\ UNCHANGED <<ms_urlSid, ms_user, ms_messages, ms_input, ms_isLoading, ms_pc,
                 ms_userMsgId, ms_urlParam, ms_sendReqs, ms_created, ms_toasts,
                 ms_sends, ms_outcome>>
  /\ UNCHANGED failed
  /\ UNCHANGED msOthers

\* user?.id becomes available after the mount: the history effect runs again.
MS_UserLoaded ==
  /\ route = "multi"
  /\ ms_phase = "mounted" /\ ~ms_user
  /\ ms_user' = TRUE
  /\ IF ms_sessionIdFromParams # 0
       THEN /\ ms_historyPending' = TRUE
            /\ ms_isLoadingHistory' = TRUE
            /\ UNCHANGED <<ms_mountCreate, ms_createReqs>>
       ELSE /\ ms_mountCreate' = TRUE
            /\ ms_createReqs' = ms_createReqs + 1
            /\ UNCHANGED <<ms_historyPending, ms_isLoadingHistory>>
  /\ UNCHANGED <<ms_phase, ms_urlSid, ms_sessionIdFromParams, ms_messages,
                 ms_input, ms_isLoading, ms_pc, ms_userMsgId, ms_urlParam,
                 ms_sendReqs, ms_created, ms_toasts, ms_sends, ms_outcome>>
  /\ UNCHANGED failed
  /\ UNCHANGED msOthers

\* createNewSessionAndUpdateURL after createNewSession: the new id goes into
\* the URL (as ?sessionIdFromParams=), not into the component's state.
MS_MountCreateDone(ok) ==
  /\ route = "multi"
  /\ ms_mountCreate
  /\ ms_mountCreate' = FALSE
  /\ IF ok
       THEN LET newId == 401 + Len(ms_created)
            IN ms_created' = Append(ms_created, newId) /\ ms_urlParam' = newId
       ELSE UNCHANGED <<ms_created, ms_urlParam>>
  /\ UNCHANGED <<ms_phase, ms_urlSid, ms_user, ms_sessionIdFromParams,
                 ms_messages, ms_input, ms_isLoading, ms_isLoadingHistory, ms_pc,
                 ms_userMsgId, ms_historyPending, ms_sendReqs, ms_createReqs,
                 ms_toasts, ms_sends, ms_outcome>>
  /\ failed' = IF ~ok THEN failed \cup {"multi-create"} ELSE failed
  /\ UNCHANGED msOthers

\* loadChatHistory after its fetch.
MS_LoadChatHistoryDone(ok, rows) ==
  /\ route = "multi"
  /\ ms_historyPending
  /\ ms_historyPending' = FALSE
  /\ ms_isLoadingHistory' = FALSE
  /\ IF ok
       THEN /\ ms_messages' = MultiLoadedFrom(rows, 1)
            /\ ms_toasts' = ms_toasts \cup {"success: Chat history loaded"}
       ELSE UNCHANGED <<ms_messages, ms_toasts>>
  /\ UNCHANGED <<ms_phase, ms_urlSid, ms_user, ms_sessionIdFromParams, ms_input,
                 ms_isLoading, ms_pc, ms_userMsgId, ms_mountCreate, ms_urlParam,
                 ms_sendReqs, ms_createReqs, ms_created, ms_sends, ms_outcome>>
  /\ UNCHANGED failed
  /\ UNCHANGED msOthers

\* The input box, disabled while a send is loading.
MS_Type(v) ==
  /\ route = "multi"
  /\ ms_phase = "mounted" /\ ~ms_isLoading
  /\ v # ms_input
  /\ ms_input' = v
  /\ UNCHANGED <<ms_phase, ms_urlSid, ms_user, ms_sessionIdFromParams,
                 ms_messages, ms_isLoading, ms_isLoadingHistory, ms_pc,
                 ms_userMsgId, ms_mountCreate, ms_historyPending, ms_urlParam,
                 ms_sendReqs, ms_createReqs, ms_created, ms_toasts, ms_sends,
                 ms_outcome>>
  /\ failed' = {}
  /\ UNCHANGED msOthers

\* The catch block of handleSendMessage, then finally.
MsSendFailed(msgs, userId) ==
  /\ ms_toasts' = {"error: Failed to get response"}
  /\ ms_messages' = Append(msgs, MultiMessage(userId + 1, "assistant",
                                              MultiErrorText, <<>>))
  /\ ms_isLoading' = FALSE
  /\ ms_pc' = "idle"
  /\ ms_outcome' = "failed"

\* handleSendMessage up to its first await.  With sessionIdFromParams the
\* message is posted to that session; without it a session is created first,
\* which fails at once when there is no user.
MS_HandleSendMessage ==
  /\ route = "multi"
  /\ ms_phase = "mounted"
  /\ Trim(ms_input) # "" /\ ~ms_isLoading
  /\ ms_sends < MaxMultiSends
  /\ ms_sends' = ms_sends + 1
  /\ ms_userMsgId' = 2 * ms_sends' - 1
  /\ ms_input' = ""
  /\ LET withUser == Append(ms_messages,
                            MultiMessage(ms_userMsgId', "user", <<Trim(ms_input)>>, <<>>))
     IN IF ms_sessionIdFromParams # 0
          THEN /\ ms_messages' = withUser
               /\ ms_isLoading' = TRUE
               /\ ms_sendReqs' = Append(ms_sendReqs, ms_sessionIdFromParams)
               /\ ms_pc' = "sending"
               /\ ms_toasts' = {}
               /\ ms_outcome' = "none"
               /\ UNCHANGED ms_createReqs
          ELSE IF ms_user
            THEN /\ ms_messages' = withUser
                 /\ ms_isLoading' = TRUE
                 /\ ms_createReqs' = ms_createReqs + 1
                 /\ ms_pc' = "creating"
                 /\ ms_toasts' = {}
                 /\ ms_outcome' = "none"
                 /\ UNCHANGED ms_sendReqs
            ELSE /\ MsSendFailed(withUser, 2 * ms_sends + 1)
                 /\ UNCHANGED <<ms_createReqs, ms_sendReqs>>
  /\ UNCHANGED <<ms_phase, ms_urlSid, ms_user, ms_sessionIdFromParams,
                 ms_isLoadingHistory, ms_mountCreate, ms_historyPending,
                 ms_urlParam, ms_created>>
  /\ failed' = {}
  /\ UNCHANGED msOthers

\* createNewSession inside handleSendMessage has an outcome.
MS_SendCreateDone(ok) ==
  /\ route = "multi"
  /\ ms_pc = "creating"
  /\ IF ok
       THEN LET newId == 401 + Len(ms_created)
            IN /\ ms_created' = Append(ms_created, newId)
               /\ ms_urlParam' = newId
               /\ ms_sendReqs' = Append(ms_sendReqs, newId)
               /\ ms_pc' = "sending"
               /\ UNCHANGED <<ms_toasts, ms_messages, ms_isLoading, ms_outcome,
                              ms_userMsgId>>
       ELSE /\ MsSendFailed(ms_messages, ms_userMsgId)
            /\ UNCHANGED <<ms_created, ms_urlParam, ms_sendReqs, ms_userMsgId>>
  /\ UNCHANGED <<ms_phase, ms_urlSid, ms_user, ms_sessionIdFromParams, ms_input,
                 ms_isLoadingHistory, ms_mountCreate, ms_historyPending,
                 ms_createReqs, ms_sends>>
  /\ failed' = IF ~ok THEN failed \cup {"multi-create"} ELSE failed
  /\ UNCHANGED msOthers

\* The send-message fetch has an outcome: the stored ids and the answer, or a
\* failure.
MS_SendResponse(ok) ==
  /\ route = "multi"
  /\ ms_pc = "sending"
  /\ IF ok
       THEN /\ ms_messages' =
                 Append([i \in 1..Len(ms_messages) |->
                           IF ms_messages[i].id = ms_userMsgId
                             THEN [ms_messages[i] EXCEPT !.id = 700 + ms_userMsgId]
                             ELSE ms_messages[i]],
                        MultiMessage(701 + ms_userMsgId, "assistant", <<"answer">>,
                                     <<"reddit">>))
            /\ ms_isLoading' = FALSE
            /\ ms_pc' = "idle"
            /\ ms_outcome' = "finished"
            /\ UNCHANGED <<ms_toasts, ms_userMsgId>>
       ELSE /\ MsSendFailed(ms_messages, ms_userMsgId)
            /\ UNCHANGED ms_userMsgId
  /\ UNCHANGED <<ms_phase, ms_urlSid, ms_user, ms_sessionIdFromParams, ms_input,
                 ms_isLoadingHistory, ms_mountCreate, ms_historyPending,
                 ms_urlParam, ms_sendReqs, ms_createReqs, ms_created, ms_sends>>
  /\ failed' = IF ~ok THEN failed \cup {"multi-send"} ELSE failed
  /\ UNCHANGED msOthers

\* ================================================================ PdfUploader
\* validateFile's size limit: 50 MB.
MaxPdfSize == 50 * 1024 * 1024

\* The files a user can drop or select.
Files ==
  { [name |-> "a.pdf", type |-> "application/pdf", size |-> 1024],
    [name |-> "b.pdf", type |-> "application/pdf", size |-> MaxPdfSize],
    [name |-> "big.pdf", type |-> "application/pdf", size |-> MaxPdfSize + 1],
    [name |-> "c.csv", type |-> "text/csv", size |-> 1024] }

NoFile == [name |-> "", status |-> "none", id |-> 0, pdfId |-> 0]

\* A validateFile that looks at the size only: what the type check rules out.
validateFileSizeOnly(file) ==
  IF file.size > MaxPdfSize THEN "File size must be less than 50MB"
  ELSE ""

\* validateFile: the error message, or "" for null.
validateFile(file) ==
  IF file.type # "application/pdf" THEN "Please upload a PDF file only"
  ELSE IF file.size > MaxPdfSize THEN "File size must be less than 50MB"
  ELSE ""

\* The id the server stores the upload numbered id under.
PdfIdOf(id) == 500 + id

PuInit ==
  /\ pu_isSignedIn \in BOOLEAN
  /\ pu_uploadedFile = NoFile
  /\ pu_isCreatingSession = FALSE
  /\ pu_uploading = {}
  /\ pu_starting = <<>>
  /\ pu_retryChat = {}
  /\ pu_uploadReqs = 0
  /\ pu_sessionReqs = <<>>
  /\ pu_toasts = {}
  /\ pu_files = 0
  /\ pu_starts = 0
  /\ pu_navigated = <<>>

\* Clerk finishes signing the user in.
PU_SignedIn ==
  /\ route = "upload"
  /\ ~pu_isSignedIn /\ pu_navigated = <<>>
  /\ pu_isSignedIn' = TRUE
  /\ UNCHANGED <<pu_uploadedFile, pu_isCreatingSession, pu_uploading, pu_starting,
                 pu_retryChat, pu_uploadReqs, pu_sessionReqs, pu_toasts, pu_files, pu_starts,
                 pu_navigated>>
  /\ UNCHANGED failed
  /\ UNCHANGED puOthers

\* handleFile, reached by a drop, the file input, the Try Again button or the
\* Retry button of an "Upload failed" toast, up to getToken.
PU_HandleFile(file) ==
  /\ route = "upload"
  /\ pu_navigated = <<>>
  /\ pu_files < MaxUploads
  /\ IF ~pu_isSignedIn
       THEN /\ pu_toasts' = {"error: Authentication required"}
            /\ UNCHANGED <<pu_uploadedFile, pu_uploading, pu_files, pu_starts>>
       ELSE IF validateFile(file) # ""
         THEN /\ pu_toasts' = {"error: Invalid file"}
              /\ UNCHANGED <<pu_uploadedFile, pu_uploading, pu_files, pu_starts>>
         ELSE /\ pu_files' = pu_files + 1
              /\ pu_uploadedFile' = [name |-> file.name, status |-> "uploading",
                                     id |-> pu_files', pdfId |-> 0]
              /\ pu_uploading' = pu_uploading \cup
                                   {[id |-> pu_files', name |-> file.name, stage |-> "token"]}
              /\ pu_toasts' = {"info: Upload started"}
  /\ failed' = {}
  /\ UNCHANGED <<pu_isSignedIn, pu_isCreatingSession, pu_starting, pu_retryChat,
                 pu_uploadReqs, pu_sessionReqs, pu_starts, pu_navigated>>
  /\ UNCHANGED puOthers

\* The catch block of simulateProgressAndUpload.
PuUploadFailed ==
  /\ pu_uploadedFile' = IF pu_uploadedFile = NoFile THEN NoFile
                        ELSE [pu_uploadedFile EXCEPT !.status = "error"]
  /\ pu_toasts' = pu_toasts \cup {"error: Upload failed"}

\* uploadFileToBackend after getToken: the upload is posted, or there is no
\* token and the upload fails without a request.
PU_UploadToken(call, ok) ==
  /\ route = "upload"
  /\ pu_navigated = <<>>
  /\ call \in pu_uploading /\ call.stage = "token"
  /\ IF ok
       THEN /\ pu_uploading' = (pu_uploading \ {call}) \cup {[call EXCEPT !.stage = "request"]}
            /\ pu_uploadReqs' = pu_uploadReqs + 1
            /\ UNCHANGED <<pu_uploadedFile, pu_toasts>>
       ELSE /\ pu_uploading' = pu_uploading \ {call}
            /\ PuUploadFailed
            /\ UNCHANGED pu_uploadReqs
  /\ UNCHANGED failed
  /\ UNCHANGED <<pu_isSignedIn, pu_isCreatingSession, pu_starting, pu_retryChat,
                 pu_sessionReqs, pu_files, pu_starts, pu_navigated>>
  /\ UNCHANGED puOthers

\* An upload that posts the file again by itself when the request fails: what
\* the absence of a retry policy rules out.
PU_UploadDoneRetrying(call, ok) ==
  /\ route = "upload"
  /\ pu_navigated = <<>>
  /\ call \in pu_uploading /\ call.stage = "request"
  /\ IF ok
       THEN /\ pu_uploading' = pu_uploading \ {call}
            /\ pu_uploadedFile' =
                 IF pu_uploadedFile = NoFile THEN NoFile
                 ELSE [pu_uploadedFile EXCEPT !.status = "success",
                                              !.pdfId = PdfIdOf(call.id)]
            /\ pu_toasts' = pu_toasts \cup {"success: PDF uploaded"}
            /\ UNCHANGED <<failed, pu_uploadReqs>>
       ELSE /\ pu_uploadReqs < 2 * MaxUploads
            /\ pu_uploadReqs' = pu_uploadReqs + 1
            /\ failed' = failed \cup {"pdf-upload"}
            /\ UNCHANGED <<pu_uploading, pu_uploadedFile, pu_toasts>>
  /\ UNCHANGED <<pu_isSignedIn, pu_isCreatingSession, pu_starting, pu_retryChat,
                 pu_sessionReqs, pu_files, pu_starts, pu_navigated>>
  /\ UNCHANGED puOthers

\* simulateProgressAndUpload after the upload request: whatever file is shown
\* then is marked with the outcome.
PU_UploadDone(call, ok) ==
  /\ route = "upload"
  /\ pu_navigated = <<>>
  /\ call \in pu_uploading /\ call.stage = "request"
  /\ pu_uploading' = pu_uploading \ {call}
  /\ IF ok
       THEN /\ pu_uploadedFile' =
                 IF pu_uploadedFile = NoFile THEN NoFile
                 ELSE [pu_uploadedFile EXCEPT !.status = "success",
                                              !.pdfId = PdfIdOf(call.id)]
            /\ pu_toasts' = pu_toasts \cup {"success: PDF uploaded"}
            /\ UNCHANGED failed
       ELSE /\ PuUploadFailed
            /\ failed' = failed \cup {"pdf-upload"}
  /\ UNCHANGED <<pu_isSignedIn, pu_isCreatingSession, pu_starting, pu_retryChat,
                 pu_uploadReqs, pu_sessionReqs, pu_files, pu_starts, pu_navigated>>
  /\ UNCHANGED puOthers

\* handleRemoveFile, behind the remove button of the shown file.
PU_RemoveFile ==
  /\ route = "upload"
  /\ pu_navigated = <<>>
  /\ pu_uploadedFile # NoFile
  /\ pu_uploadedFile' = NoFile
  /\ pu_toasts' = {"info: File removed"}
  /\ failed' = {}
  /\ UNCHANGED <<pu_isSignedIn, pu_isCreatingSession, pu_uploading, pu_starting,
                 pu_retryChat, pu_uploadReqs, pu_sessionReqs, pu_files, pu_starts,
                 pu_navigated>>
  /\ UNCHANGED puOthers

\* handleStartChat up to getToken, for the file the calling closure holds.
PuStartChat(pdfId) ==
  /\ pu_starts < MaxStartChats
  /\ pu_starts' = pu_starts + 1
  /\ pu_isCreatingSession' = TRUE
  /\ pu_starting' = Append(pu_starting, [pdfId |-> pdfId, stage |-> "token"])
  /\ pu_toasts' = {}
  /\ failed' = {}
  /\ UNCHANGED <<pu_isSignedIn, pu_uploadedFile, pu_uploading, pu_uploadReqs,
                 pu_sessionReqs, pu_files, pu_navigated>>
  /\ UNCHANGED puOthers

\* The Start Chat button, shown for a successful upload and disabled without
\* a pdf id or while a session is being created.
PU_HandleStartChat ==
  /\ route = "upload"
  /\ pu_navigated = <<>>
  /\ pu_uploadedFile.status = "success"
  /\ pu_uploadedFile.pdfId # 0 /\ ~pu_isCreatingSession
  /\ PuStartChat(pu_uploadedFile.pdfId)
  /\ UNCHANGED pu_retryChat

\* The Retry button of a "Failed to start chat" toast: handleStartChat of the
\* render that failed, with the file that render showed.
PU_RetryStartChat(pdfId) ==
  /\ route = "upload"
  /\ pu_navigated = <<>>
  /\ pdfId \in pu_retryChat
  /\ pu_retryChat' = pu_retryChat \ {pdfId}
  /\ PuStartChat(pdfId)

\* The catch block of handleStartChat, then finally.
PuStartFailed(i) ==
  /\ pu_starting' = RemoveAt(pu_starting, i)
  /\ pu_toasts' = pu_toasts \cup {"error: Failed to start chat"}
  /\ pu_retryChat' = pu_retryChat \cup {pu_starting[i].pdfId}
  /\ pu_isCreatingSession' = FALSE
  /\ UNCHANGED pu_navigated

\* createChatSession after getToken.
PU_StartToken(i, ok) ==
  /\ route = "upload"
  /\ pu_navigated = <<>>
  /\ i \in 1..Len(pu_starting) /\ pu_starting[i].stage = "token"
  /\ IF ok
       THEN /\ pu_starting' = [pu_starting EXCEPT ![i].stage = "request"]
            /\ pu_sessionReqs' = Append(pu_sessionReqs, pu_starting[i].pdfId)
            /\ UNCHANGED <<pu_toasts, pu_retryChat, pu_isCreatingSession, pu_navigated>>
       ELSE /\ PuStartFailed(i)
            /\ UNCHANGED pu_sessionReqs
  /\ UNCHANGED failed
  /\ UNCHANGED <<pu_isSignedIn, pu_uploadedFile, pu_uploading, pu_uploadReqs,
                 pu_files, pu_starts>>
  /\ UNCHANGED puOthers

\* handleStartChat after the create-session request: the page of the new
\* session is opened, or the failure is shown.
PU_StartDone(i, ok) ==
  /\ route = "upload"
  /\ pu_navigated = <<>>
  /\ i \in 1..Len(pu_starting) /\ pu_starting[i].stage = "request"
  /\ IF ok
       THEN /\ pu_starting' = RemoveAt(pu_starting, i)
            /\ pu_toasts' = pu_toasts \cup {"success: Chat session created"}
            /\ pu_navigated' = <<pu_starting[i].pdfId, 600 + Len(pu_sessionReqs)>>
            /\ pu_isCreatingSession' = FALSE
            /\ UNCHANGED <<pu_retryChat, failed>>
       ELSE /\ PuStartFailed(i)
            /\ failed' = failed \cup {"pdf-session"}
  /\ UNCHANGED <<pu_isSignedIn, pu_uploadedFile, pu_uploading, pu_uploadReqs,
                 pu_sessionReqs, pu_files, pu_starts>>
  /\ UNCHANGED puOthers

PuCalls == [id : 1..MaxUploads, name : {f.name : f \in Files}, stage : {"token", "request"}]

\* ==================================================================== Sidebar
\* The chat sessions the user has when the dashboard opens.
SidebarChats == {801, 802}

SbInit ==
  /\ sb_user \in BOOLEAN
  /\ sb_chatSessions = SidebarChats
  /\ sb_activeChat = 0
  /\ sb_confirmDelete = FALSE
  /\ sb_chatToDelete = 0
  /\ sb_deleting = <<>>
  /\ sb_deleteReqs = <<>>
  /\ sb_clicks = 0
  /\ sb_openedFor = 0

SB_UserLoaded ==
  /\ route = "sidebar"
  /\ ~sb_user
  /\ sb_user' = TRUE
  /\ UNCHANGED failed
  /\ UNCHANGED <<sb_chatSessions, sb_activeChat, sb_confirmDelete, sb_chatToDelete,
                 sb_deleting, sb_deleteReqs, sb_clicks, sb_openedFor>>
  /\ UNCHANGED sbOthers

\* handleChatClick: a listed chat is opened.  The modal's overlay begins at
\* the right edge of the sidebar, so the list stays clickable under it.
SB_HandleChatClick(chat) ==
  /\ route = "sidebar"
  /\ chat \in sb_chatSessions
  /\ sb_activeChat # chat
  /\ sb_activeChat' = chat
  /\ failed' = {}
  /\ UNCHANGED <<sb_user, sb_chatSessions, sb_confirmDelete, sb_chatToDelete,
                 sb_deleting, sb_deleteReqs, sb_clicks, sb_openedFor>>
  /\ UNCHANGED sbOthers

\* handleDeleteChat: the delete button of a listed chat opens the modal for
\* that chat, also when the modal is already open for another one.
SB_HandleDeleteChat(chat) ==
  /\ route = "sidebar"
  /\ chat \in sb_chatSessions
  /\ sb_clicks < MaxDeleteClicks
  /\ sb_clicks' = sb_clicks + 1
  /\ sb_chatToDelete' = chat
  /\ sb_openedFor' = chat
  /\ sb_confirmDelete' = TRUE
  /\ failed' = {}
  /\ UNCHANGED <<sb_user, sb_chatSessions, sb_activeChat, sb_deleting, sb_deleteReqs>>
  /\ UNCHANGED sbOthers

\* The modal's backdrop, close button or Cancel button: onClose.
SB_ModalClose ==
  /\ route = "sidebar"
  /\ sb_confirmDelete
  /\ sb_confirmDelete' = FALSE
  /\ sb_chatToDelete' = 0
  /\ failed' = {}
  /\ UNCHANGED <<sb_user, sb_chatSessions, sb_activeChat, sb_deleting,
                 sb_deleteReqs, sb_clicks, sb_openedFor>>
  /\ UNCHANGED sbOthers

\* A Delete button that removes the chat on view rather than the chat the
\* modal shows: what deleting only the confirmed session rules out.
SB_ModalConfirmActiveChat ==
  /\ route = "sidebar"
  /\ sb_confirmDelete
  /\ IF sb_chatToDelete # 0 /\ sb_user
       THEN LET chat == IF sb_activeChat # 0 THEN sb_activeChat ELSE sb_chatToDelete
            IN  /\ sb_deleting' = Append(sb_deleting, chat)
                /\ sb_deleteReqs' = Append(sb_deleteReqs, chat)
       ELSE UNCHANGED <<sb_deleting, sb_deleteReqs>>
  /\ sb_confirmDelete' = FALSE
  /\ sb_chatToDelete' = 0
  /\ failed' = {}
  /\ UNCHANGED <<sb_user, sb_chatSessions, sb_activeChat, sb_clicks, sb_openedFor>>
  /\ UNCHANGED sbOthers

\* The modal's Delete button: confirmDeleteChat up to its fetch, then onClose.
SB_ModalConfirm ==
  /\ route = "sidebar"
  /\ sb_confirmDelete
  /\ IF sb_chatToDelete # 0 /\ sb_user
       THEN /\ sb_deleting' = Append(sb_deleting, sb_chatToDelete)
            /\ sb_deleteReqs' = Append(sb_deleteReqs, sb_chatToDelete)
       ELSE UNCHANGED <<sb_deleting, sb_deleteReqs>>
  /\ sb_confirmDelete' = FALSE
  /\ sb_chatToDelete' = 0
  /\ failed' = {}
  /\ UNCHANGED <<sb_user, sb_chatSessions, sb_activeChat, sb_clicks, sb_openedFor>>
  /\ UNCHANGED sbOthers

\* confirmDeleteChat after its fetch: on success the list is fetched again and
\* the deleted chat is no longer the active one; finally chatToDelete is reset.
SB_DeleteDone(i, ok) ==
  /\ route = "sidebar"
  /\ i \in 1..Len(sb_deleting)
  /\ sb_deleting' = RemoveAt(sb_deleting, i)
  /\ IF ok
       THEN /\ sb_chatSessions' = sb_chatSessions \ {sb_deleting[i]}
            /\ sb_activeChat' = IF sb_activeChat = sb_deleting[i] THEN 0 ELSE sb_activeChat
            /\ UNCHANGED failed
       ELSE /\ UNCHANGED <<sb_chatSessions, sb_activeChat>>
            /\ failed' = failed \cup {"chat-delete"}
  /\ sb_chatToDelete' = 0
  /\ UNCHANGED <<sb_user, sb_confirmDelete, sb_deleteReqs, sb_clicks, sb_openedFor>>
  /\ UNCHANGED sbOthers

\* ================================================================ CsvUploader
\* handleFileUpload's size limit: 100 MB.
MaxCsvSize == 100 * 1024 * 1024

\* String.prototype.toLowerCase on the pieces file names are made of.
ToLowerCase(piece) ==
  CASE piece = ".CSV" -> ".csv"
    [] piece = "E" -> "e"
    [] OTHER -> piece

\* name.toLowerCase().endsWith('.csv'), a name being its stem and its extension.
EndsWithCsv(name) == ToLowerCase(name[Len(name)]) = ".csv"

\* The files a user can drop or select.
CsvFiles ==
  { [name |-> <<"d", ".csv">>, size |-> 1024],
    [name |-> <<"E", ".CSV">>, size |-> MaxCsvSize],
    [name |-> <<"huge", ".csv">>, size |-> MaxCsvSize + 1],
    [name |-> <<"notes", ".txt">>, size |-> 10] }

NoCsvFile == [name |-> <<>>, status |-> "none", id |-> 0, csvId |-> 0]

\* The id the server stores the upload numbered id under.
CsvIdOf(id) == 700 + id

CuInit ==
  /\ cu_isSignedIn \in BOOLEAN
  /\ cu_user \in BOOLEAN
  /\ cu_user => cu_isSignedIn
  /\ cu_dropSignedIn = cu_isSignedIn
  /\ cu_dropUser = cu_user
  /\ cu_uploadedFile = NoCsvFile
  /\ cu_isCreatingSession = FALSE
  /\ cu_uploading = {}
  /\ cu_uploadReqs = <<>>
  /\ cu_creating = <<>>
  /\ cu_sessionReqs = <<>>
  /\ cu_toasts = {}
  /\ cu_files = 0
  /\ cu_starts = 0
  /\ cu_navigated = <<>>

\* Clerk finishes signing the user in.
CU_SignedIn ==
  /\ route = "csv-upload"
  /\ ~cu_isSignedIn /\ cu_navigated = <<>>
  /\ cu_isSignedIn' = TRUE
  /\ UNCHANGED <<cu_user, cu_dropSignedIn, cu_dropUser, cu_uploadedFile,
                 cu_isCreatingSession, cu_uploading, cu_uploadReqs, cu_creating,
                 cu_sessionReqs, cu_toasts, cu_files, cu_starts, cu_navigated>>
  /\ UNCHANGED failed
  /\ UNCHANGED cuOthers

\* Clerk delivers the user object.
CU_UserLoaded ==
  /\ route = "csv-upload"
  /\ cu_isSignedIn /\ ~cu_user /\ cu_navigated = <<>>
  /\ cu_user' = TRUE
  /\ UNCHANGED <<cu_isSignedIn, cu_dropSignedIn, cu_dropUser, cu_uploadedFile,
                 cu_isCreatingSession, cu_uploading, cu_uploadReqs, cu_creating,
                 cu_sessionReqs, cu_toasts, cu_files, cu_starts, cu_navigated>>
  /\ UNCHANGED failed
  /\ UNCHANGED cuOthers

\* handleFileUpload up to the upload request. A drop runs the handleFileUpload
\* of the first render (handleDrop is memoised without dependencies); the file
\* input, opened by Choose CSV File or Try Again, runs the current one.
CU_HandleFileUpload(file, via) ==
  /\ route = "csv-upload"
  /\ cu_navigated = <<>>
  /\ cu_files < MaxCsvUploads
  /\ via = "input" => (cu_uploadedFile = NoCsvFile \/ cu_uploadedFile.status = "error")
  /\ LET isSignedIn == IF via = "drop" THEN cu_dropSignedIn ELSE cu_isSignedIn
         user == IF via = "drop" THEN cu_dropUser ELSE cu_user
     IN  IF ~isSignedIn
           THEN /\ cu_toasts' = {"error: Please sign in to upload files"}
                /\ UNCHANGED <<cu_uploadedFile, cu_uploading, cu_uploadReqs, cu_files>>
         ELSE IF ~EndsWithCsv(file.name)
           THEN /\ cu_toasts' = {"error: Please upload a CSV file"}
                /\ UNCHANGED <<cu_uploadedFile, cu_uploading, cu_uploadReqs, cu_files>>
         ELSE IF file.size > MaxCsvSize
           THEN /\ cu_toasts' = {"error: File size must be under 100MB"}
                /\ UNCHANGED <<cu_uploadedFile, cu_uploading, cu_uploadReqs, cu_files>>
         ELSE /\ cu_files' = cu_files + 1
              /\ IF ~user
                   THEN /\ cu_uploadedFile' = [name |-> file.name, status |-> "error",
                                               id |-> cu_files', csvId |-> 0]
                        /\ cu_toasts' = {"error: User not authenticated"}
                        /\ UNCHANGED <<cu_uploading, cu_uploadReqs>>
                   ELSE /\ cu_uploadedFile' = [name |-> file.name, status |-> "uploading",
                                               id |-> cu_files', csvId |-> 0]
                        /\ cu_uploading' = cu_uploading \cup {cu_files'}
                        /\ cu_uploadReqs' = Append(cu_uploadReqs, file.name)
                        /\ cu_toasts' = {}
  /\ failed' = {}
  /\ UNCHANGED <<cu_isSignedIn, cu_user, cu_dropSignedIn, cu_dropUser,
                 cu_isCreatingSession, cu_creating, cu_sessionReqs, cu_starts,
                 cu_navigated>>
  /\ UNCHANGED cuOthers

\* handleFileUpload after the upload request: whatever file is shown then is
\* marked with the outcome; a 2xx answer without success changes nothing.
CU_UploadDone(id, outcome) ==
  /\ route = "csv-upload"
  /\ cu_navigated = <<>>
  /\ id \in cu_uploading
  /\ cu_uploading' = cu_uploading \ {id}
  /\ CASE outcome = "success" ->
            /\ cu_uploadedFile' =
                 IF cu_uploadedFile = NoCsvFile THEN NoCsvFile
                 ELSE [cu_uploadedFile EXCEPT !.status = "success", !.csvId = CsvIdOf(id)]
            /\ cu_toasts' = cu_toasts \cup {"success: CSV uploaded successfully!"}
            /\ UNCHANGED failed
       [] outcome = "unsuccessful" ->
            UNCHANGED <<cu_uploadedFile, cu_toasts, failed>>
       [] outcome = "error" ->
            /\ cu_uploadedFile' =
                 IF cu_uploadedFile = NoCsvFile THEN NoCsvFile
                 ELSE [cu_uploadedFile EXCEPT !.status = "error"]
            /\ cu_toasts' = cu_toasts \cup {"error: Failed to upload CSV file"}
            /\ failed' = failed \cup {"csv-upload"}
  /\ UNCHANGED <<cu_isSignedIn, cu_user, cu_dropSignedIn, cu_dropUser,
                 cu_isCreatingSession, cu_uploadReqs, cu_creating, cu_sessionReqs,
                 cu_files, cu_starts, cu_navigated>>
  /\ UNCHANGED cuOthers

\* removeFile, behind the remove button of the shown file.
CU_RemoveFile ==
  /\ route = "csv-upload"
  /\ cu_navigated = <<>>
  /\ cu_uploadedFile # NoCsvFile
  /\ cu_uploadedFile' = NoCsvFile
  /\ cu_toasts' = {}
  /\ failed' = {}
  /\ UNCHANGED <<cu_isSignedIn, cu_user, cu_dropSignedIn, cu_dropUser,
                 cu_isCreatingSession, cu_uploading, cu_uploadReqs, cu_creating,
                 cu_sessionReqs, cu_files, cu_starts, cu_navigated>>
  /\ UNCHANGED cuOthers

\* createChatSession up to the create-session request, behind the Start
\* Chatting button: shown for status "success", disabled while a session is
\* being created.
CU_CreateChatSession ==
  /\ route = "csv-upload"
  /\ cu_navigated = <<>>
  /\ cu_uploadedFile.status = "success" /\ ~cu_isCreatingSession
  /\ cu_starts < MaxCsvStarts
  /\ IF cu_uploadedFile.csvId = 0 \/ ~cu_user
       THEN /\ cu_toasts' = {"error: No CSV file uploaded or user not authenticated"}
            /\ UNCHANGED <<cu_isCreatingSession, cu_creating, cu_sessionReqs, cu_starts>>
       ELSE /\ cu_isCreatingSession' = TRUE
            /\ cu_starts' = cu_starts + 1
            /\ cu_creating' = Append(cu_creating, cu_uploadedFile.csvId)
            /\ cu_sessionReqs' = Append(cu_sessionReqs, cu_uploadedFile.csvId)
            /\ cu_toasts' = {}
  /\ failed' = {}
  /\ UNCHANGED <<cu_isSignedIn, cu_user, cu_dropSignedIn, cu_dropUser,
                 cu_uploadedFile, cu_uploading, cu_uploadReqs, cu_files, cu_navigated>>
  /\ UNCHANGED cuOthers

\* createChatSession after the create-session request: the page of the new
\* session is opened, or the failure is shown; finally isCreatingSession is reset.
CU_CreateSessionDone(i, outcome) ==
  /\ route = "csv-upload"
  /\ cu_navigated = <<>>
  /\ i \in 1..Len(cu_creating)
  /\ cu_creating' = RemoveAt(cu_creating, i)
  /\ cu_isCreatingSession' = FALSE
  /\ CASE outcome = "success" ->
            /\ cu_toasts' = cu_toasts \cup {"success: Chat session created successfully!"}
            /\ cu_navigated' = <<cu_creating[i], 650 + Len(cu_sessionReqs)>>
            /\ UNCHANGED failed
       [] outcome = "unsuccessful" ->
            UNCHANGED <<cu_toasts, cu_navigated, failed>>
       [] outcome = "error" ->
            /\ cu_toasts' = cu_toasts \cup {"error: Failed to create chat session"}
            /\ failed' = failed \cup {"csv-session"}
            /\ UNCHANGED cu_navigated
  /\ UNCHANGED <<cu_isSignedIn, cu_user, cu_dropSignedIn, cu_dropUser,
                 cu_uploadedFile, cu_uploading, cu_uploadReqs, cu_sessionReqs,
                 cu_files, cu_starts>>
  /\ UNCHANGED cuOthers

\* ======================================================== row-level security
Tables == {"web_pages", "document_chunks"}

\* SQL's NULL as a text value.
Null == "NULL"

\* auth.uid(): the uuid of the caller's token, 0 (NULL) for a caller without one.
AuthUids == {0, 1, 2}

\* The cast of a uuid to text; NULL stays NULL.
UidText(uid) ==
  CASE uid = 1 -> "uuid-1"
    [] uid = 2 -> "uuid-2"
    [] OTHER -> Null

\* The values the TEXT column user_id can be given.
UserIdTexts == {"uuid-1", "uuid-2", Null}

\* SQL's = in three-valued logic.
SqlEq(a, b) ==
  IF a = Null \/ b = Null THEN Null
  ELSE IF a = b THEN "true" ELSE "false"

\* A policy that counts NULL as a pass: what three-valued logic rules out.
PolicyPassesOnNull(v) == v # "false"

\* A policy expression lets a row through only when it evaluates to true.
PolicyPasses(v) == v = "true"

\* The expression every policy of both tables uses: auth.uid()::text = user_id.
PolicyExpr(uid, row) == SqlEq(UidText(uid), row.user_id)

\* USING of the SELECT, UPDATE and DELETE policies.
Using(table, uid, row) == PolicyPasses(PolicyExpr(uid, row))

\* WITH CHECK of the INSERT policy; an UPDATE policy without WITH CHECK
\* applies its USING expression to the new row.
WithCheck(table, uid, row) == PolicyPasses(PolicyExpr(uid, row))

RlInit ==
  /\ rl_rows = [t \in Tables |-> { [id |-> 1, user_id |-> "uuid-1"],
                                   [id |-> 2, user_id |-> "uuid-2"] }]
  /\ rl_last = [cmd |-> "none", table |-> "none", uid |-> 0, rows |-> {}]
  /\ rl_ops = 0

\* SELECT * FROM table: the rows the policy lets the caller see.
RL_Select(table, uid) ==
  /\ route = "database"
  /\ rl_ops < MaxStatements
  /\ rl_ops' = rl_ops + 1
  /\ rl_last' = [cmd |-> "select", table |-> table, uid |-> uid,
                 rows |-> { r \in rl_rows[table] : Using(table, uid, r) }]
  /\ UNCHANGED rl_rows
  /\ UNCHANGED failed
  /\ UNCHANGED rlOthers

\* INSERT of one row: refused by NOT NULL or by the policy's WITH CHECK.
RL_Insert(table, uid, user_id) ==
  /\ route = "database"
  /\ rl_ops < MaxStatements
  /\ rl_ops' = rl_ops + 1
  /\ LET row == [id |-> 3 + rl_ops, user_id |-> user_id]
         allowed == user_id # Null /\ WithCheck(table, uid, row)
     IN  /\ rl_rows' = IF allowed THEN [rl_rows EXCEPT ![table] = @ \cup {row}]
                       ELSE rl_rows
         /\ rl_last' = [cmd |-> "insert", table |-> table, uid |-> uid,
                        rows |-> IF allowed THEN {row} ELSE {}]
  /\ UNCHANGED failed
  /\ UNCHANGED rlOthers

\* UPDATE table SET user_id = ... WHERE id = ...: only rows passing USING are
\* touched, and the statement fails when a new row does not pass the check.
RL_Update(table, uid, id, user_id) ==
  /\ route = "database"
  /\ rl_ops < MaxStatements
  /\ rl_ops' = rl_ops + 1
  /\ LET old == { r \in rl_rows[table] : r.id = id /\ Using(table, uid, r) }
         new == { [r EXCEPT !.user_id = user_id] : r \in old }
         allowed == user_id # Null /\ \A r \in new : WithCheck(table, uid, r)
     IN  /\ rl_rows' = IF allowed
                         THEN [rl_rows EXCEPT ![table] = (@ \ old) \cup new]
                         ELSE rl_rows
         /\ rl_last' = [cmd |-> "update", table |-> table, uid |-> uid,
                        rows |-> IF allowed THEN old \cup new ELSE {}]
  /\ UNCHANGED failed
  /\ UNCHANGED rlOthers

\* DELETE FROM table WHERE id = ...: only rows passing USING are removed.
RL_Delete(table, uid, id) ==
  /\ route = "database"
  /\ rl_ops < MaxStatements
  /\ rl_ops' = rl_ops + 1
  /\ LET old == { r \in rl_rows[table] : r.id = id /\ Using(table, uid, r) }
     IN  /\ rl_rows' = [rl_rows EXCEPT ![table] = @ \ old]
         /\ rl_last' = [cmd |-> "delete", table |-> table, uid |-> uid, rows |-> old]
  /\ UNCHANGED failed
  /\ UNCHANGED rlOthers

\* The row ids a statement can name.
RowIds == 1..(2 + MaxStatements)

\* ============================================================= SourcesDisplay
\* The sources a message can carry.
SourceItems == {"s1", "s2"}

\* The lists of sources of at most MaxSources entries.
SourceLists ==
  UNION { [1..n -> SourceItems] : n \in 0..MaxSources }

\* Array.prototype.slice(start, end) for 0 <= start <= end.
Slice(seq, start, end) ==
  SubSeq(seq, start + 1, IF end < Len(seq) THEN end ELSE Len(seq))

\* A SourcesDisplay that maps over the whole list: what slice(0, 5) rules out.
SourcesDisplayUnsliced(sources) ==
  IF ~sources.defined \/ Len(sources.list) = 0
    THEN [panel |-> FALSE, entries |-> <<>>]
    ELSE [panel |-> TRUE, entries |-> sources.list]

\* SourcesDisplay: null without sources, otherwise one entry per source of
\* sources.slice(0, 5).
SourcesDisplay(sources) ==
  IF ~sources.defined \/ Len(sources.list) = 0
    THEN [panel |-> FALSE, entries |-> <<>>]
    ELSE [panel |-> TRUE, entries |-> Slice(sources.list, 0, 5)]

SdInit ==
  /\ sd_sources \in [defined : {TRUE}, list : SourceLists]
                      \cup {[defined |-> FALSE, list |-> <<>>]}
  /\ sd_rendered = [done |-> FALSE, panel |-> FALSE, entries |-> <<>>]

\* React renders the component.
SD_Render ==
  /\ route = "sources"
  /\ ~sd_rendered.done
  /\ LET out == SourcesDisplay(sd_sources)
     IN  sd_rendered' = [done |-> TRUE, panel |-> out.panel, entries |-> out.entries]
  /\ UNCHANGED sd_sources
  /\ UNCHANGED failed
  /\ UNCHANGED sdOthers

\* ========================================================= WebChatDynamicPage
\* The sessions the server can hold for the page when it is opened.
WebExisting == { <<>>, <<"s361">>, <<"s362", "s361">> }

\* The id the server gives a session it creates.
WebNewSession == "s371"

WcInit ==
  /\ wc_phase = "constructed"
  /\ wc_user \in BOOLEAN
  /\ wc_urlSid \in {"", "undefined", "s351"}
  /\ wc_existing \in WebExisting
  /\ wc_webData = FALSE
  /\ wc_sessionId = ""
  /\ wc_isCreatingSession = FALSE
  /\ wc_pc = "idle"
  /\ wc_lookupReqs = 0
  /\ wc_createReqs = 0
  /\ wc_toasts = {}

\* The fetch effect of the first render: fetchWebDetails starts when the user
\* is loaded.
WC_Mount ==
  /\ route = "web-chat"
  /\ wc_phase = "constructed"
  /\ wc_phase' = "mounted"
  /\ wc_pc' = IF wc_user THEN "details" ELSE "idle"
  /\ UNCHANGED <<wc_user, wc_urlSid, wc_existing, wc_webData, wc_sessionId,
                 wc_isCreatingSession, wc_lookupReqs, wc_createReqs, wc_toasts>>
  /\ UNCHANGED failed
  /\ UNCHANGED wcOthers

\* Clerk delivers the user after the mount: the fetch effect runs again.
WC_UserLoaded ==
  /\ route = "web-chat"
  /\ wc_phase = "mounted" /\ ~wc_user
  /\ wc_user' = TRUE
  /\ wc_pc' = "details"
  /\ UNCHANGED <<wc_phase, wc_urlSid, wc_existing, wc_webData, wc_sessionId,
                 wc_isCreatingSession, wc_lookupReqs, wc_createReqs, wc_toasts>>
  /\ UNCHANGED failed
  /\ UNCHANGED wcOthers

\* fetchWebDetails after GET /api/web/{id}: with a sessionId in the URL it is
\* taken; without one findOrCreateSession asks for the existing sessions.
WC_FetchWebDetailsDone(outcome) ==
  /\ route = "web-chat"
  /\ wc_pc = "details"
  /\ CASE outcome = "success" ->
            /\ wc_webData' = TRUE
            /\ IF wc_urlSid # "" /\ wc_urlSid # "undefined"
                 THEN /\ wc_sessionId' = wc_urlSid
                      /\ wc_toasts' = wc_toasts \cup {"success: Web page details loaded"}
                      /\ wc_pc' = "done"
                      /\ UNCHANGED wc_lookupReqs
                 ELSE /\ wc_lookupReqs' = wc_lookupReqs + 1
                      /\ wc_pc' = "lookup"
                      /\ UNCHANGED <<wc_sessionId, wc_toasts>>
            /\ UNCHANGED failed
       [] outcome = "unsuccessful" ->
            /\ wc_pc' = "done"
            /\ UNCHANGED <<wc_webData, wc_sessionId, wc_toasts, wc_lookupReqs, failed>>
       [] outcome = "error" ->
            /\ wc_pc' = "done"
            /\ wc_toasts' = wc_toasts \cup {"error: Failed to load web page details"}
            /\ failed' = failed \cup {"web-details"}
            /\ UNCHANGED <<wc_webData, wc_sessionId, wc_lookupReqs>>
  /\ UNCHANGED <<wc_phase, wc_user, wc_urlSid, wc_existing, wc_isCreatingSession,
                 wc_createReqs>>
  /\ UNCHANGED wcOthers

\* findOrCreateSession after GET /api/chat/sessions: the first session of a
\* successful, non-empty answer is used; in every other case, a failed lookup
\* included, createChatSession posts a new session.
WC_FindOrCreateSessionDone(outcome) ==
  /\ route = "web-chat"
  /\ wc_pc = "lookup"
  /\ IF outcome = "success" /\ Len(wc_existing) > 0
       THEN /\ wc_sessionId' = wc_existing[1]
            /\ wc_toasts' = wc_toasts \cup {"success: Web page details loaded"}
            /\ wc_pc' = "done"
            /\ UNCHANGED <<wc_isCreatingSession, wc_createReqs>>
       ELSE /\ wc_isCreatingSession' = TRUE
            /\ wc_createReqs' = wc_createReqs + 1
            /\ wc_pc' = "creating"
            /\ UNCHANGED <<wc_sessionId, wc_toasts>>
  /\ failed' = IF outcome = "error" THEN failed \cup {"web-sessions"} ELSE failed
  /\ UNCHANGED <<wc_phase, wc_user, wc_urlSid, wc_existing, wc_webData,
                 wc_lookupReqs>>
  /\ UNCHANGED wcOthers

\* createChatSession after POST /api/chat/create-session, then the end of
\* fetchWebDetails.
WC_CreateChatSessionDone(outcome) ==
  /\ route = "web-chat"
  /\ wc_pc = "creating"
  /\ wc_pc' = "done"
  /\ wc_isCreatingSession' = FALSE
  /\ CASE outcome = "success" ->
            /\ wc_sessionId' = WebNewSession
            /\ wc_existing' = <<WebNewSession>> \o wc_existing
            /\ wc_toasts' = wc_toasts \cup {"success: Chat session created!",
                                           "success: Web page details loaded"}
            /\ UNCHANGED failed
       [] outcome = "unsuccessful" ->
            /\ wc_toasts' = wc_toasts \cup {"success: Web page details loaded"}
            /\ UNCHANGED <<wc_sessionId, wc_existing, failed>>
       [] outcome = "error" ->
            /\ wc_toasts' = wc_toasts \cup {"error: Failed to create chat session",
                                           "success: Web page details loaded"}
            /\ failed' = failed \cup {"web-create"}
            /\ UNCHANGED <<wc_sessionId, wc_existing>>
  /\ UNCHANGED <<wc_phase, wc_user, wc_urlSid, wc_webData, wc_lookupReqs,
                 wc_createReqs>>
  /\ UNCHANGED wcOthers

\* ================================================================ the program
\* A component not on view stays as one fixed instance that never acts.
AgParked == AgInit /\ ag_variant = "pdf" /\ ag_sessionId = 0
CsParked == CsInit /\ cs_user
MsParked == MsInit /\ ms_urlSid = 0 /\ ms_user
PuParked == PuInit /\ pu_isSignedIn
SbParked == SbInit /\ sb_user
CuParked == CuInit /\ cu_isSignedIn /\ cu_user
RlParked == RlInit
SdParked == SdInit /\ ~sd_sources.defined
WcParked == WcInit /\ wc_user /\ wc_urlSid = "" /\ wc_existing = <<>>

Routes == {"agents", "pdf-chat", "multi", "upload", "sidebar", "csv-upload",
           "database", "sources", "web-chat"}

Init ==
  /\ route \in Routes
  /\ failed = {}
  /\ IF route = "agents" THEN AgInit ELSE AgParked
  /\ IF route = "pdf-chat" THEN CsInit ELSE CsParked
  /\ IF route = "multi" THEN MsInit ELSE MsParked
  /\ IF route = "upload" THEN PuInit ELSE PuParked
  /\ IF route = "sidebar" THEN SbInit ELSE SbParked
  /\ IF route = "csv-upload" THEN CuInit ELSE CuParked
  /\ IF route = "database" THEN RlInit ELSE RlParked
  /\ IF route = "sources" THEN SdInit ELSE SdParked
  /\ IF route = "web-chat" THEN WcInit ELSE WcParked

Next ==
  \/ \E v \in Inputs : AG_Type(v)
  \/ AG_UserLoaded
  \/ \E outcome \in {"ok", "failed"}, rows \in AgentHistories :
       AG_LoadSessionDone(outcome, rows)
  \/ AG_SendMessage
  \/ \E ok \in BOOLEAN : AG_CreateSessionDone(ok)
  \/ \E outcome \in {"ok", "http error", "network error", "no body"},
        reply \in AgentReplies : AG_ChatResponse(outcome, reply)
  \/ \E n \in 1..Len(ag_wire) : AG_Read(n)
  \/ AG_ReadDone
  \/ AG_ReadError
  \/ AG_StopGeneration
  \/ \E session \in ChatSessions : CS_SetSession(session)
  \/ CS_UserLoaded
  \/ \E session \in ChatSessions, outcome \in {"success", "refused", "threw"},
        rows \in ChatHistories(1) \cup ChatHistories(2) :
       CS_LoadMessagesDone(session, outcome, rows)
  \/ \E v \in Inputs : CS_Type(v)
  \/ CS_HandleSendMessage
  \/ \E outcome \in {"ok", "http error", "network error", "no body"},
        reply \in ChatReplies : CS_SendResponse(outcome, reply)
  \/ \E n \in 1..Len(cs_wire) : CS_Read(n)
  \/ CS_ReadDone
  \/ CS_ReadError
  \/ MS_Mount
  \/ MS_UserLoaded
  \/ \E ok \in BOOLEAN : MS_MountCreateDone(ok)
  \/ \E ok \in BOOLEAN, rows \in MultiHistories : MS_LoadChatHistoryDone(ok, rows)
  \/ \E v \in Inputs : MS_Type(v)
  \/ MS_HandleSendMessage
  \/ \E ok \in BOOLEAN : MS_SendCreateDone(ok)
  \/ \E ok \in BOOLEAN : MS_SendResponse(ok)
  \/ PU_SignedIn
  \/ \E file \in Files : PU_HandleFile(file)
  \/ \E call \in PuCalls, ok \in BOOLEAN : PU_UploadToken(call, ok)
  \/ \E call \in PuCalls, ok \in BOOLEAN : PU_UploadDone(call, ok)
  \/ PU_RemoveFile
  \/ PU_HandleStartChat
  \/ \E pdfId \in {PdfIdOf(i) : i \in 1..MaxUploads} : PU_RetryStartChat(pdfId)
  \/ \E i \in 1..MaxStartChats, ok \in BOOLEAN : PU_StartToken(i, ok)
  \/ \E i \in 1..MaxStartChats, ok \in BOOLEAN : PU_StartDone(i, ok)
  \/ SB_UserLoaded
  \/ \E chat \in SidebarChats : SB_HandleChatClick(chat)
  \/ \E chat \in SidebarChats : SB_HandleDeleteChat(chat)
  \/ SB_ModalClose
  \/ SB_ModalConfirm
  \/ \E i \in 1..MaxDeleteClicks, ok \in BOOLEAN : SB_DeleteDone(i, ok)
  \/ CU_SignedIn
  \/ CU_UserLoaded
  \/ \E file \in CsvFiles, via \in {"drop", "input"} : CU_HandleFileUpload(file, via)
  \/ \E id \in 1..MaxCsvUploads, outcome \in {"success", "unsuccessful", "error"} :
       CU_UploadDone(id, outcome)
  \/ CU_RemoveFile
  \/ CU_CreateChatSession
  \/ \E i \in 1..MaxCsvStarts, outcome \in {"success", "unsuccessful", "error"} :
       CU_CreateSessionDone(i, outcome)
  \/ \E table \in Tables, uid \in AuthUids : RL_Select(table, uid)
  \/ \E table \in Tables, uid \in AuthUids, user_id \in UserIdTexts :
       RL_Insert(table, uid, user_id)
  \/ \E table \in Tables, uid \in AuthUids, id \in RowIds, user_id \in UserIdTexts :
       RL_Update(table, uid, id, user_id)
  \/ \E table \in Tables, uid \in AuthUids, id \in RowIds : RL_Delete(table, uid, id)
  \/ SD_Render
  \/ WC_Mount
  \/ WC_UserLoaded
  \/ \E outcome \in {"success", "unsuccessful", "error"} : WC_FetchWebDetailsDone(outcome)
  \/ \E outcome \in {"success", "unsuccessful", "error"} : WC_FindOrCreateSessionDone(outcome)
  \/ \E outcome \in {"success", "unsuccessful", "error"} : WC_CreateChatSessionDone(outcome)

Spec == Init /\ [][Next]_vars

\* ====================================================================== claims

\* The AI message of the running (or last) send, if it is still in the list.
AgAiMessages ==
  { i \in 1..Len(ag_messages) : ag_messages[i].id = ag_aiId }

\* C2 (as stated): once stopGeneration has been invoked during a send, the send
\* is over: isLoading is false and the handler is no longer running, so no reply
\* content can be added afterwards.
C2_StopEndsSend ==
  ag_stopClicked => (~ag_isLoading /\ ag_pc = "idle")

\* C3 (as stated): a component opened with a valid session id posts every chat
\* request with that session id and never asks for a new session.
C3_UsesGivenSession ==
  IsValidUuid(ag_sessionId) =>
    /\ ag_createReqs = 0
    /\ \A i \in 1..Len(ag_chatReqs) : ag_chatReqs[i] = ag_sessionId

\* C5: a component that started without a session creates at most one session
\* over all its sends, and every chat request carries the id of that session.
C5_OneSessionPerMount ==
  ag_sessionId = 0 =>
    /\ Len(ag_created) <= 1
    /\ \A i \in 1..Len(ag_chatReqs) :
         Len(ag_created) = 1 /\ ag_chatReqs[i] = ag_created[1]

\* C5 witness: two chat requests have gone out after a single created session.
C5_Witness ==
  ag_sessionId = 0 /\ Len(ag_chatReqs) = 2 /\ Len(ag_created) = 1

\* C6 (as stated): once the line loop has parsed a data event with an error
\* field, the send has ended in the error state: error text in the AI message,
\* isStreaming cleared, an error toast shown.
C6_StreamErrorEndsSend ==
  ag_sawError =>
    /\ ag_pc = "idle"
    /\ "error: Failed to send message" \in ag_toasts
    /\ \A i \in AgAiMessages :
         ag_messages[i].content = ErrorText /\ ~ag_messages[i].isStreaming

\* C1 (as stated): when a reply stream has finished, the assistant message
\* holds exactly the content the server sent, in order, however the stream was
\* divided into reads.
C1_ContentIsWhatWasSent ==
  (cs_outcome = "finished" /\ CsIsLast(cs_messages, cs_asstId)) =>
    cs_messages[Len(cs_messages)].content = cs_sent

\* C9 (as stated): no step of a send removes, moves or changes a message that
\* was in the list when the send began; the first step only appends.
C9_SendOnlyAppends ==
  [][ /\ CS_HandleSendMessage =>
           SubSeq(cs_messages', 1, Len(cs_messages)) = cs_messages
      /\ ( \/ \E outcome \in {"ok", "http error", "network error", "no body"},
                 reply \in ChatReplies : CS_SendResponse(outcome, reply)
           \/ \E n \in 1..Len(cs_wire) : CS_Read(n)
           \/ CS_ReadDone
           \/ CS_ReadError ) =>
           \A i \in 1..Len(cs_messages) :
             (i <= Len(cs_before) /\ cs_messages[i] = cs_before[i]) =>
               (i <= Len(cs_messages') /\ cs_messages'[i] = cs_messages[i])
    ]_vars

\* C10: when a history request succeeds, the list shown is the stored rows of
\* that session in stored order: role "user" as a user message, any other role
\* as an assistant message, the stored citations attached.
C10_HistoryShownAsStored ==
  [][ \A session \in ChatSessions, rows \in ChatHistories(1) \cup ChatHistories(2) :
        CS_LoadMessagesDone(session, "success", rows) =>
          /\ Len(cs_messages') = Len(rows)
          /\ \A i \in 1..Len(rows) :
               /\ cs_messages'[i].id = rows[i].id
               /\ cs_messages'[i].content = rows[i].message
               /\ cs_messages'[i].type =
                    (IF rows[i].role = "user" THEN "user" ELSE "ai_agent")
               /\ rows[i].sources # <<>> =>
                    JsonEncodeSources(cs_messages'[i].sources) = rows[i].sources
               /\ rows[i].sources = <<>> => cs_messages'[i].sources = <<>>
    ]_vars

\* C10 witness: the stored history of session 1 is on screen, the assistant's
\* row with its two citations.
C10_Witness ==
  /\ ~cs_isLoading /\ cs_loads = {}
  /\ Len(cs_messages) = 2
  /\ cs_messages[1].id = 901 /\ cs_messages[1].type = "user"
  /\ cs_messages[2].id = 902 /\ cs_messages[2].type = "ai_agent"
  /\ cs_messages[2].sources = <<"s1", "s2">>

\* C4 (as stated): every send-message request of a visit carries one session
\* id: the URL's when the page was opened with one, else that of a session
\* created during the visit.
C4_OneConversation ==
  /\ \A i, j \in 1..Len(ms_sendReqs) : ms_sendReqs[i] = ms_sendReqs[j]
  /\ \A i \in 1..Len(ms_sendReqs) :
       IF ms_urlSid # 0
         THEN ms_sendReqs[i] = ms_urlSid
         ELSE \E k \in 1..Len(ms_created) : ms_sendReqs[i] = ms_created[k]

\* The steps in which a send fails: session creation fails, the fetch rejects,
\* the response is not 2xx or has no body, a read of the body rejects.
AgSendFails ==
  \/ AG_CreateSessionDone(FALSE)
  \/ \E outcome \in {"http error", "network error", "no body"}, reply \in AgentReplies :
       AG_ChatResponse(outcome, reply)
  \/ AG_ReadError
CsSendFails ==
  \/ \E outcome \in {"http error", "network error", "no body"}, reply \in ChatReplies :
       CS_SendResponse(outcome, reply)
  \/ CS_ReadError
MsSendFails ==
  \/ MS_HandleSendMessage /\ ms_sessionIdFromParams = 0 /\ ~ms_user
  \/ MS_SendCreateDone(FALSE)
  \/ MS_SendResponse(FALSE)

\* C7: a step in which a send fails leaves the component idle (isLoading or
\* isTyping false, the handler over) with an error toast on screen.
C7_FailuresSurfaced ==
  [][ /\ AgSendFails =>
           /\ ~ag_isLoading' /\ ag_pc' = "idle"
           /\ \E t \in ag_toasts' : t \in {"error: Failed to create chat session",
                                           "error: Failed to send message"}
      /\ CsSendFails =>
           /\ ~cs_isTyping' /\ cs_pc' = "idle"
           /\ "error: Failed to send message" \in cs_toasts'
      /\ MsSendFails =>
           /\ ~ms_isLoading' /\ ms_pc' = "idle"
           /\ "error: Failed to get response" \in ms_toasts'
    ]_vars

\* C7 witness: a ChatSection send whose request failed has ended.
C7_Witness ==
  /\ route = "pdf-chat" /\ "chat-send" \in failed
  /\ cs_outcome = "failed" /\ cs_sends = 1 /\ cs_pc = "idle"

\* The endpoints of C8 and the number of requests each has received.
Endpoints ==
  {"agent-create", "agent-chat", "chat-send", "multi-create", "multi-send",
   "pdf-upload", "pdf-session", "chat-delete"}
Requests ==
  [e \in Endpoints |->
     CASE e = "agent-create" -> ag_createReqs
       [] e = "agent-chat" -> Len(ag_chatReqs)
       [] e = "chat-send" -> cs_sends
       [] e = "multi-create" -> ms_createReqs
       [] e = "multi-send" -> Len(ms_sendReqs)
       [] e = "pdf-upload" -> pu_uploadReqs
       [] e = "pdf-session" -> Len(pu_sessionReqs)
       [] e = "chat-delete" -> Len(sb_deleteReqs)]

\* The steps a user takes: typing, sending, stopping, choosing or removing a
\* file, starting a chat (by its button or a toast's Retry), and the clicks of
\* the sidebar and its modal.
UserAction ==
  \/ \E v \in Inputs : AG_Type(v) \/ CS_Type(v) \/ MS_Type(v)
  \/ AG_SendMessage \/ AG_StopGeneration
  \/ CS_HandleSendMessage
  \/ MS_HandleSendMessage
  \/ \E file \in Files : PU_HandleFile(file)
  \/ PU_RemoveFile \/ PU_HandleStartChat
  \/ \E pdfId \in {PdfIdOf(i) : i \in 1..MaxUploads} : PU_RetryStartChat(pdfId)
  \/ \E chat \in SidebarChats : SB_HandleChatClick(chat) \/ SB_HandleDeleteChat(chat)
  \/ SB_ModalClose \/ SB_ModalConfirm

\* The steps that post the one request of a call the user has already made,
\* once its token has arrived.
TokenArrives ==
  \/ \E call \in PuCalls : PU_UploadToken(call, TRUE)
  \/ \E i \in 1..MaxStartChats : PU_StartToken(i, TRUE)

PuUploadUntouched ==
  /\ pu_uploadedFile' = pu_uploadedFile
  /\ pu_uploading' = pu_uploading
  /\ pu_uploadReqs' = pu_uploadReqs

\* The same for CsvUploader.
CuUploadUntouched ==
  /\ cu_uploadedFile' = cu_uploadedFile
  /\ cu_uploading' = cu_uploading
  /\ cu_uploadReqs' = cu_uploadReqs

C12_SessionOnlyForCompletedUpload ==
  [][ /\ Len(pu_starting') > Len(pu_starting) =>
           /\ pu_uploadedFile.status = "success"
           /\ pu_starting'[Len(pu_starting')].pdfId = pu_uploadedFile.pdfId
      /\ cu_sessionReqs' # cu_sessionReqs =>
           /\ cu_uploadedFile.status = "success"
           /\ cu_sessionReqs'[Len(cu_sessionReqs')] = cu_uploadedFile.csvId
    ]_vars

\* C13: a statement on web_pages or document_chunks is allowed on a row, old
\* or new, only if the caller is authenticated and the row's user_id equals
\* the caller's id as text; and a row never passes to another user.
C13_OwnRowsOnly ==
  /\ \A r \in rl_last.rows :
       rl_last.uid # 0 /\ r.user_id = UidText(rl_last.uid)
  /\ \A t \in Tables : \A r \in rl_rows[t] :
       r.id \in {1, 2} => r.user_id = UidText(r.id)

\* C13 witness: user 1 has updated its own row of a table that also holds a
\* row of user 2, after a statement on it by another caller.
C13_Witness ==
  /\ route = "database"
  /\ rl_ops = 2
  /\ rl_last.cmd = "update" /\ rl_last.uid = 1 /\ rl_last.rows # {}
  /\ \E r \in rl_rows[rl_last.table] : r.user_id = "uuid-2"

\* C14: SourcesDisplay renders nothing for a missing or empty list, and
\* otherwise exactly the first five sources of the list (all of them when
\* there are fewer), in the order received.
C14_FirstFiveSources ==
  sd_rendered.done =>
    IF ~sd_sources.defined \/ sd_sources.list = <<>>
      THEN ~sd_rendered.panel /\ sd_rendered.entries = <<>>
      ELSE /\ sd_rendered.panel
           /\ Len(sd_rendered.entries) <= 5
           /\ Len(sd_rendered.entries) =
                (IF Len(sd_sources.list) < 5 THEN Len(sd_sources.list) ELSE 5)
           /\ \A i \in 1..Len(sd_rendered.entries) :
                sd_rendered.entries[i] = sd_sources.list[i]

\* C14 witness: a list of six sources, not all alike, was rendered.
C14_Witness ==
  /\ route = "sources"
  /\ sd_rendered.done
  /\ Len(sd_sources.list) = 6
  /\ sd_sources.list[1] # sd_sources.list[2]
  /\ Len(sd_rendered.entries) = 5

\* C15 (as stated): whenever no send is in progress in a chat component
\* (isLoading / isTyping false), no message of its list has isStreaming true.
C15_NoStreamingWhenIdle ==
  /\ ~ag_isLoading => \A i \in 1..Len(ag_messages) : ~ag_messages[i].isStreaming
  /\ ~cs_isTyping => \A i \in 1..Len(cs_messages) : ~cs_messages[i].isStreaming

\* C16: a send is accepted (and adds its messages) only when no earlier send of
\* the same component is still running and the input is not blank; and while
\* a send is running the component's flag that makes it ignore sends is up.
C16_OneSendAtATime ==
  [][ /\ ag_sends' # ag_sends =>
           ag_pc = "idle" /\ ~ag_isLoading /\ Trim(ag_inputValue) # ""
      /\ cs_sends' # cs_sends =>
           cs_pc = "idle" /\ ~cs_isTyping /\ Trim(cs_inputMessage) # ""
      /\ ms_sends' # ms_sends =>
           ms_pc = "idle" /\ ~ms_isLoading /\ Trim(ms_input) # ""
      /\ ag_pc' # "idle" => ag_isLoading'
      /\ cs_pc' # "idle" => cs_isTyping'
      /\ ms_pc' # "idle" => ms_isLoading'
    ]_vars

\* C16 witness: the second send of an AgentChatSection was accepted after the
\* first had finished, and its chat request is pending.
C16_Witness ==
  /\ route = "agents"
  /\ ag_sends = 2 /\ Len(ag_chatReqs) = 2
  /\ ag_pc = "fetching" /\ ag_isLoading

\* The list ends with a user message followed by one assistant message.
EndsWithExchange(msgs) ==
  /\ Len(msgs) >= 2
  /\ msgs[Len(msgs) - 1].type = "user"
  /\ msgs[Len(msgs)].type \in {"ai_agent", "assistant"}

\* C17 (as stated): once an accepted send has finished, the message list ends
\* with the user's message followed by exactly one assistant message.
C17_EveryMessageAnswered ==
  /\ (ag_sends > 0 /\ ag_pc = "idle" /\ ~ag_isLoading) => EndsWithExchange(ag_messages)
  /\ (cs_sends > 0 /\ cs_pc = "idle" /\ ~cs_isTyping) => EndsWithExchange(cs_messages)
  /\ (ms_sends > 0 /\ ms_pc = "idle" /\ ~ms_isLoading) => EndsWithExchange(ms_messages)

\* C18 (as stated): a MultipleSourcesChat opened with a sessionId in the URL
\* never issues a create-session request.
C18_UrlSessionOnlyLoads ==
  ms_urlSid # 0 => ms_createReqs = 0

\* C19 (as stated): a successful loadChatHistory displays every stored message
\* of the session exactly once, in stored order.
C19_HistoryWithoutLoss ==
  [][ \A rows \in MultiHistories :
        MS_LoadChatHistoryDone(TRUE, rows) =>
          /\ Len(ms_messages') = Len(rows)
          /\ \A i \in 1..Len(rows) :
               /\ ms_messages'[i].id = rows[i].id
               /\ ms_messages'[i].content = rows[i].message
    ]_vars

\* C20 (as stated): a WebChatDynamicPage opened without a sessionId sends a
\* create-session request only when the user has no session for the web page;
\* when one exists, none is created.
C20_CreateOnlyWithoutSession ==
  [][ (wc_urlSid \in {"", "undefined"} /\ wc_createReqs' # wc_createReqs) =>
        wc_existing = <<>>
    ]_vars

\* The history request of ChatSection settles: its fetch resolves or rejects.
CsLoadSettles ==
  \E session \in ChatSessions, outcome \in {"success", "refused", "threw"},
     rows \in ChatHistories(1) \cup ChatHistories(2) :
    CS_LoadMessagesDone(session, outcome, rows)

\* The program under the scheduling its runtime gives: Clerk finishes loading
\* the user, and every pending history request settles.  Nothing obliges the
\* page to hand over a session id: PdfChatPage keeps sessionId "" when the URL
\* carries none or when its PDF-details request fails.
LiveSpec ==
  Init /\ [][Next]_vars /\ WF_vars(CS_UserLoaded) /\ WF_vars(CsLoadSettles)

\* C21 (as stated): after mount ChatSection eventually leaves its loading
\* state, for every sessionId, user availability and history-request outcome.
C21_LeavesLoading ==
  (route = "pdf-chat") => <>(~cs_isLoading)

\* C22 (as stated): a file shown with status "success" carries the document
\* id (and with it the url, stored by the same update) that the server
\* returned for the upload of that very file, in PdfUploader and CsvUploader.
C22_SuccessIsOwnUpload ==
  /\ pu_uploadedFile.status = "success" =>
       pu_uploadedFile.pdfId = PdfIdOf(pu_uploadedFile.id)
  /\ cu_uploadedFile.status = "success" =>
       cu_uploadedFile.csvId = CsvIdOf(cu_uploadedFile.id)

\* C23 (as stated): once every started CSV upload has been answered or has
\* failed, the file shown, if any, has left status "uploading" (it is in
\* status "success" or "error").
C23_AnsweredUploadLeavesUploading ==
  cu_uploading = {} => cu_uploadedFile.status \in {"none", "success", "error"}

\* C24: the Sidebar sends a DELETE request only when Delete is pressed in the
\* open confirmation modal, and for the chat whose delete button opened the
\* modal; Cancel, the close button and the backdrop send no request and leave
\* the session list and the active chat as they were.
C24_DeleteOnlyWhenConfirmed ==
  [][ /\ sb_deleteReqs' # sb_deleteReqs =>
           /\ SB_ModalConfirm
           /\ sb_confirmDelete /\ sb_openedFor # 0
           /\ sb_deleteReqs' = Append(sb_deleteReqs, sb_openedFor)
      /\ SB_ModalClose =>
           UNCHANGED <<sb_deleteReqs, sb_deleting, sb_chatSessions, sb_activeChat>>
    ]_vars

\* C24 witness: chat 801 is on view; the delete buttons of two chats were
\* clicked, one modal ended without a request, and the one DELETE sent is for
\* chat 802, the chat the modal was opened for last; it has been deleted.
C24_Witness ==
  /\ route = "sidebar"
  /\ sb_activeChat = 801
  /\ sb_clicks = 2 /\ sb_openedFor = 802
  /\ sb_deleteReqs = <<802>> /\ sb_deleting = <<>>
  /\ sb_chatSessions = {801}
  /\ ~sb_confirmDelete

====
